---- MODULE Spec2Model ----
(***************************************************************************)
(* Model of the YouTube note plugin: TranscriptDownloader.download (the    *)
(* XML timed-text variant that uses findBestCaptionTrack) with its retry   *)
(* loop, the caption-track resolver, the timed-text parser, the entity     *)
(* decoder, the video id extractors, NoteUpdater.updateFlexible and the    *)
(* plugin's processCurrentNote. Each pure function also has a              *)
(* specification of its own that runs it on a bounded set of inputs.       *)
(*                                                                         *)
(* Strings that the code inspects character by character are sequences of  *)
(* one-character strings; opaque strings (messages, URLs) are TLA+ strings.*)
(***************************************************************************)
EXTENDS Integers, Sequences, FiniteSets, TLC

\* ------------------------------------------------------------------ bounds

\* largest maxRetries the downloader is constructed with
MaxRetriesBound == 4
\* longest caption-track list handed to the resolver
MaxTracks == 2
\* longest language-preference list handed to the resolver
MaxPrefs == 2
\* most <text> elements / noise items in one caption payload
MaxElems == 2
\* most alphabet characters following an 11-character identifier in a URL
MaxExtra == 1
\* longest caption text handed to the decoder on its own
MaxLen == 4
\* most items in a payload handed to the parser on its own
MaxParseElems == 3
\* most times one note is processed
MaxRuns == 2
\* most invocations of processCurrentNote on the one note
MaxInvocations == 2
\* most attempts either of two interleaved download calls is given
MaxCallRetries == 2
\* most requests one AIProcessor sends
MaxAiCalls == 2

\* ----------------------------------------------------------------- strings

\* null / undefined for object-valued locals and results
Null == [null |-> TRUE]

\* an absent optional string property (kind?: string, an unmatched regex)
Undefined == "undefined"

\* the least / greatest element of a non-empty set of positions
MinOf(S) == CHOOSE i \in S : \A k \in S : i <= k
MaxOf(S) == CHOOSE i \in S : \A k \in S : i >= k

RECURSIVE SeqsUpTo(_, _)
\* all sequences over S of length 0..n
SeqsUpTo(S, n) ==
    IF n = 0 THEN {<<>>}
    ELSE LET shorter == SeqsUpTo(S, n - 1)
         IN  shorter \cup {Append(s, x) : s \in {t \in shorter : Len(t) = n - 1}, x \in S}

\* String.prototype.startsWith
StartsWith(s, p) ==
    /\ Len(p) <= Len(s)
    /\ \A i \in 1..Len(p) : s[i] = p[i]

\* does pat occur in s at position i (1-based)
MatchesAt(s, pat, i) ==
    /\ i + Len(pat) - 1 <= Len(s)
    /\ \A k \in 1..Len(pat) : s[i + k - 1] = pat[k]

RECURSIVE ReplaceFrom(_, _, _, _)
\* String.prototype.replace(new RegExp(pat, 'g'), rep) for a literal, non-empty
\* pattern: leftmost non-overlapping occurrences, scanning from position i
ReplaceFrom(s, pat, rep, i) ==
    IF i > Len(s) THEN <<>>
    ELSE IF MatchesAt(s, pat, i)
         THEN rep \o ReplaceFrom(s, pat, rep, i + Len(pat))
         ELSE <<s[i]>> \o ReplaceFrom(s, pat, rep, i + 1)

ReplaceAll(s, pat, rep) == ReplaceFrom(s, pat, rep, 1)

RECURSIVE JoinWith(_, _)
\* Array.prototype.join(sep) on a sequence of strings
JoinWith(ss, sep) ==
    IF Len(ss) = 0 THEN <<>>
    ELSE IF Len(ss) = 1 THEN ss[1]
    ELSE ss[1] \o sep \o JoinWith(Tail(ss), sep)

\* the characters the regex class \s matches among the characters modelled
WhiteSpace == {" ", "\n", "\t"}

RECURSIVE CollapseFrom(_, _)
\* .replace(/\s+/g, ' '): every maximal run of whitespace becomes one space
CollapseFrom(s, i) ==
    IF i > Len(s) THEN <<>>
    ELSE IF s[i] \in WhiteSpace
         THEN IF i > 1 /\ s[i - 1] \in WhiteSpace
              THEN CollapseFrom(s, i + 1)
              ELSE <<" ">> \o CollapseFrom(s, i + 1)
         ELSE <<s[i]>> \o CollapseFrom(s, i + 1)

CollapseWhitespace(s) == CollapseFrom(s, 1)

RECURSIVE TrimLeft(_)
TrimLeft(s) ==
    IF Len(s) > 0 /\ s[1] \in WhiteSpace THEN TrimLeft(Tail(s)) ELSE s

RECURSIVE TrimRight(_)
TrimRight(s) ==
    IF Len(s) > 0 /\ s[Len(s)] \in WhiteSpace
    THEN TrimRight(SubSeq(s, 1, Len(s) - 1))
    ELSE s

\* String.prototype.trim
Trim(s) == TrimRight(TrimLeft(s))

\* ------------------------------------------------- caption-track resolver

\* language codes, as character sequences
KO == <<"k", "o">>
EN == <<"e", "n">>
EN_US == <<"e", "n", "-", "U", "S">>
JA == <<"j", "a">>
EN_GB == <<"e", "n", "-", "G", "B">>

\* interface CaptionTrack: baseUrl, languageCode, kind? ('asr' when machine-made)
CaptionTrack(u, l, k) == [baseUrl |-> u, languageCode |-> l, kind |-> k]

\* Array.prototype.find with the predicate languageCode === lang
FindExact(tracks, lang) ==
    LET hits == {j \in 1..Len(tracks) : tracks[j].languageCode = lang}
    IN  IF hits = {} THEN Null
        ELSE tracks[CHOOSE j \in hits : \A k \in hits : j <= k]

\* Array.prototype.find with the predicate languageCode.startsWith(lang)
FindPartial(tracks, lang) ==
    LET hits == {j \in 1..Len(tracks) : StartsWith(tracks[j].languageCode, lang)}
    IN  IF hits = {} THEN Null
        ELSE tracks[CHOOSE j \in hits : \A k \in hits : j <= k]

\* mutant: find(t => t.kind !== 'asr') never finds a track
FindManual_Never(tracks) == Null

\* Array.prototype.find with the predicate kind !== 'asr'
FindManual(tracks) ==
    LET hits == {j \in 1..Len(tracks) : tracks[j].kind # "asr"}
    IN  IF hits = {} THEN Null
        ELSE tracks[CHOOSE j \in hits : \A k \in hits : j <= k]

\* mutant: the partial-match loop is missing
PartialMatch_Skipped(tracks, preferredLanguages) == Null

\* mutant: the exact-match loop is missing (only prefix matching is done)
ExactMatch_Skipped(tracks, preferredLanguages) == Null

\* first loop: the first preference, in order, that some track equals
ExactMatch(tracks, preferredLanguages) ==
    LET ok == {i \in 1..Len(preferredLanguages) :
                  FindExact(tracks, preferredLanguages[i]) # Null}
    IN  IF ok = {} THEN Null
        ELSE FindExact(tracks, preferredLanguages[CHOOSE i \in ok : \A k \in ok : i <= k])

\* second loop: the first preference, in order, that some track starts with
PartialMatch(tracks, preferredLanguages) ==
    LET ok == {i \in 1..Len(preferredLanguages) :
                  FindPartial(tracks, preferredLanguages[i]) # Null}
    IN  IF ok = {} THEN Null
        ELSE FindPartial(tracks, preferredLanguages[CHOOSE i \in ok : \A k \in ok : i <= k])

\* mutant: no fallback to the first track
FirstOrNull_NoFallback(tracks) == Null

\* tracks[0] || null
FirstOrNull(tracks) == IF Len(tracks) = 0 THEN Null ELSE tracks[1]

findBestCaptionTrack(tracks, preferredLanguages) ==
    IF ExactMatch(tracks, preferredLanguages) # Null
    THEN ExactMatch(tracks, preferredLanguages)
    ELSE IF PartialMatch(tracks, preferredLanguages) # Null
    THEN PartialMatch(tracks, preferredLanguages)
    ELSE IF FindManual(tracks) # Null
    THEN FindManual(tracks)
    ELSE FirstOrNull(tracks)

\* ---------------------------------------------------------- entity decoder

\* the entities table of decodeHTMLEntities, in insertion order
Entities ==
    << <<  <<"&", "a", "m", "p", ";">>,            <<"&">>  >>,
       <<  <<"&", "l", "t", ";">>,                 <<"<">>  >>,
       <<  <<"&", "g", "t", ";">>,                 <<">">>  >>,
       <<  <<"&", "q", "u", "o", "t", ";">>,       <<"\"">> >>,
       <<  <<"&", "#", "3", "9", ";">>,            <<"'">>  >>,
       <<  <<"&", "a", "p", "o", "s", ";">>,       <<"'">>  >>,
       <<  <<"&", "#", "x", "2", "7", ";">>,       <<"'">>  >>,
       <<  <<"&", "#", "x", "2", "F", ";">>,       <<"/">>  >>,
       <<  <<"&", "#", "3", "2", ";">>,            <<" ">>  >>,
       <<  <<"&", "n", "b", "s", "p", ";">>,       <<" ">>  >> >>

RECURSIVE ReplaceEntities(_, _)
\* the for-loop over Object.entries(entities): one global replace per entry,
\* each applied to the result of the previous one, from entry k on
ReplaceEntities(s, k) ==
    IF k > Len(Entities) THEN s
    ELSE ReplaceEntities(ReplaceAll(s, Entities[k][1], Entities[k][2]), k + 1)

DecDigits == {"0", "1", "2", "3", "4", "5", "6", "7", "8", "9"}
HexDigits == DecDigits \cup {"a", "b", "c", "d", "e", "f", "A", "B", "C", "D", "E", "F"}

DigitValue(c) ==
    CASE c = "0" -> 0 [] c = "1" -> 1 [] c = "2" -> 2 [] c = "3" -> 3 [] c = "4" -> 4
      [] c = "5" -> 5 [] c = "6" -> 6 [] c = "7" -> 7 [] c = "8" -> 8 [] c = "9" -> 9
      [] c \in {"a", "A"} -> 10 [] c \in {"b", "B"} -> 11 [] c \in {"c", "C"} -> 12
      [] c \in {"d", "D"} -> 13 [] c \in {"e", "E"} -> 14 [] c \in {"f", "F"} -> 15

RECURSIVE ParseDigits(_, _)
\* parseInt(digits, radix) of a non-empty run of digits of that radix
ParseDigits(ds, radix) ==
    IF Len(ds) = 0 THEN 0
    ELSE ParseDigits(SubSeq(ds, 1, Len(ds) - 1), radix) * radix + DigitValue(ds[Len(ds)])

\* String.fromCharCode: the code unit n mod 2^16, for the characters modelled;
\* any other code unit is the one character Other
FromCharCode(n) ==
    LET u == n % 65536
    IN  CASE u = 32 -> " " [] u = 34 -> "\"" [] u = 35 -> "#" [] u = 38 -> "&"
          [] u = 39 -> "'" [] u = 47 -> "/" [] u = 59 -> ";" [] u = 60 -> "<"
          [] u = 62 -> ">" [] u = 97 -> "a" [] u = 98 -> "b" [] u = 120 -> "x"
          [] OTHER -> "Other"

RECURSIVE RunEnd(_, _, _)
\* the position just after the maximal run of characters of S that starts at i
RunEnd(s, i, S) ==
    IF i <= Len(s) /\ s[i] \in S THEN RunEnd(s, i + 1, S) ELSE i

RECURSIVE ReplaceNumericFrom(_, _, _, _, _)
\* .replace(/&#(\d+);/g, ...) with prefix "&#", or .replace(/&#x([0-9a-fA-F]+);/g, ...)
\* with prefix "&#x": every reference becomes String.fromCharCode(parseInt(...))
ReplaceNumericFrom(s, prefix, digits, radix, i) ==
    IF i > Len(s) THEN <<>>
    ELSE LET from == i + Len(prefix)
             e == RunEnd(s, from, digits)
         IN  IF MatchesAt(s, prefix, i) /\ e > from /\ e <= Len(s) /\ s[e] = ";"
             THEN <<FromCharCode(ParseDigits(SubSeq(s, from, e - 1), radix))>>
                      \o ReplaceNumericFrom(s, prefix, digits, radix, e + 1)
             ELSE <<s[i]>> \o ReplaceNumericFrom(s, prefix, digits, radix, i + 1)

decodeHTMLEntities(text) ==
    LET named == ReplaceEntities(text, 1)
        decimal == ReplaceNumericFrom(named, <<"&", "#">>, DecDigits, 10, 1)
    IN  ReplaceNumericFrom(decimal, <<"&", "#", "x">>, HexDigits, 16, 1)

\* -------------------------------------------------------- timed-text parser

\* a JavaScript number in thousandths, or NaN
Num(v) == [nan |-> FALSE, milli |-> v]
NaN == [nan |-> TRUE, milli |-> 0]

RECURSIVE FractionMilli(_, _)
\* the first three fractional digits of ds as thousandths (w is the weight of ds[1])
FractionMilli(ds, w) ==
    IF Len(ds) = 0 \/ w = 0 THEN 0
    ELSE DigitValue(ds[1]) * w + FractionMilli(Tail(ds), w \div 10)

\* parseFloat: leading whitespace is skipped, then an optional sign and the
\* longest decimal literal prefix; NaN when there is none. Exponents and
\* "Infinity" are not among the strings modelled.
parseFloat(str) ==
    LET s == TrimLeft(str)
        signed == Len(s) > 0 /\ s[1] \in {"+", "-"}
        body == IF signed THEN Tail(s) ELSE s
        intEnd == RunEnd(body, 1, DecDigits)
        hasDot == intEnd <= Len(body) /\ body[intEnd] = "."
        fracEnd == IF hasDot THEN RunEnd(body, intEnd + 1, DecDigits) ELSE intEnd
        intDigits == SubSeq(body, 1, intEnd - 1)
        fracDigits == IF hasDot THEN SubSeq(body, intEnd + 1, fracEnd - 1) ELSE <<>>
        magnitude == ParseDigits(intDigits, 10) * 1000 + FractionMilli(fracDigits, 100)
    IN  IF Len(intDigits) = 0 /\ Len(fracDigits) = 0 THEN NaN
        ELSE IF signed /\ s[1] = "-" THEN Num(0 - magnitude) ELSE Num(magnitude)

\* One item of a caption payload. tag "text" is an element written exactly as
\* <text start="S" dur="D">T</text> (S, D without a quote, T without '<');
\* tag "durFirst" is the same element with dur before start; tag "noise" is any
\* other markup or whitespace between elements.
PayloadItem(tag, start, dur, text) == [tag |-> tag, start |-> start, dur |-> dur, text |-> text]

\* RE_XML_TRANSCRIPT = /<text start="([^"]*)" dur="([^"]*)">([^<]*)<\/text>/g
MatchesXmlTranscript(item) == item.tag = "text"

\* parseTranscriptXML: one segment per regex match, in source order
parseTranscriptXML(xml) ==
    LET matches == SelectSeq(xml, MatchesXmlTranscript)
    IN  [i \in 1..Len(matches) |->
            [offset |-> parseFloat(matches[i].start),
             duration |-> parseFloat(matches[i].dur),
             text |-> matches[i].text]]

\* a segment built from one regex match
Segment(item) ==
    [offset |-> parseFloat(item.start), duration |-> parseFloat(item.dur), text |-> item.text]

RECURSIVE ExecLoop(_, _, _)
\* while ((match = RE_XML_TRANSCRIPT.exec(xml)) !== null) results.push(...):
\* exec of a global regex searches from its lastIndex, leaves lastIndex behind
\* the match it found, and sets it to 0 when it finds none. Positions are
\* counted in payload items: every match ends where an item ends.
ExecLoop(xml, index, results) ==
    LET found == {i \in (index + 1)..Len(xml) : MatchesXmlTranscript(xml[i])}
    IN  IF found = {}
        THEN [results |-> results, lastIndex |-> 0]
        ELSE ExecLoop(xml, MinOf(found), Append(results, Segment(xml[MinOf(found)])))

\* mutant: the function returns at the first match and leaves the regex where
\* that match ended
parseTranscriptXMLFrom_ReturnsAtFirstMatch(xml, index) ==
    LET found == {i \in (index + 1)..Len(xml) : MatchesXmlTranscript(xml[i])}
    IN  IF found = {}
        THEN [results |-> <<>>, lastIndex |-> 0]
        ELSE [results |-> <<Segment(xml[MinOf(found)])>>, lastIndex |-> MinOf(found)]

\* parseTranscriptXML entered with RE_XML_TRANSCRIPT.lastIndex = index: the
\* segments it returns and the lastIndex it leaves (line 183 sets it to 0)
parseTranscriptXMLFrom(xml, index) ==
    [results |-> ExecLoop(xml, index, <<>>).results, lastIndex |-> 0]

\* segments.map(s => decodeHTMLEntities(s.text)).join(' ').replace(/\s+/g, ' ').trim()
FullText(segments) ==
    Trim(CollapseWhitespace(
        JoinWith([i \in 1..Len(segments) |-> decodeHTMLEntities(segments[i].text)], <<" ">>)))

\* ------------------------------------------------------------------ errors

\* an Error's message: a fixed text, or the exhaustion template with the
\* attempt count and the inner message interpolated
Message(text) == [text |-> text, attempts |-> 0, inner |-> ""]

\* new TranscriptNotFoundError(message)
TranscriptNotFoundError(text) == [name |-> "TranscriptNotFoundError", message |-> Message(text)]

\* an Error that requestUrl rejects with (network failure, HTTP status >= 400)
RequestError(text) == [name |-> "Error", message |-> Message(text)]

MsgRateLimited == "YouTube is receiving too many requests. Please try again later."
MsgUnavailable == "Video is unavailable or has been deleted"
MsgDisabled == "Transcript is disabled on this video"
MsgParseFailed == "Failed to parse captions data"
MsgNoTranscript == "No transcript available for this video"
MsgNoLanguage == "No transcript available in ${languages}. Available: ${availableLangs}"
MsgDownloadFailed == "Failed to download transcript"
MsgEmpty == "Transcript is empty"
MsgExhausted == "Failed to download transcript after ${maxRetries} attempts: ${message}"

\* the messages requestUrl rejects with
RequestErrorTexts == {"net::ERR_CONNECTION_RESET", "Request failed, status 429"}

\* ------------------------------------------------------- download: inputs

\* The watch page, as the checks of download read it: the two marker
\* substrings, the '"captions":' split, the JSON behind it, and the fields
\* extractMetadataFromPage scans for.
PageBody(recaptcha, playability, captions, json, tracks, meta) ==
    [recaptcha |-> recaptcha, playabilityStatus |-> playability, captions |-> captions,
     captionsJson |-> json, captionTracks |-> tracks, meta |-> meta]

\* what the page's scanned fields can hold: nothing, or a full set
NoMeta == [title |-> Undefined, author |-> Undefined, publishDate |-> Undefined,
           lengthSeconds |-> Undefined]
FullMeta == [title |-> "Talk - YouTube", author |-> "Channel", publishDate |-> "2024-01-01",
             lengthSeconds |-> "212"]

\* the caption-track lists a page can carry
KoOnly == << CaptionTrack("u1", KO, Undefined) >>
PageTrackLists ==
    { KoOnly,
      << CaptionTrack("u1", EN_US, "asr"), CaptionTrack("u2", KO, Undefined) >>,
      << CaptionTrack("u1", JA, "asr"), CaptionTrack("u2", JA, Undefined) >> }

\* The pages requestUrl can resolve with: every combination of the three
\* markers; behind the captions marker JSON that is "invalid" (JSON.parse
\* throws), has "noRenderer" (no playerCaptionsTracklistRenderer), has
\* "noTracks" (captionTracks missing or empty) or lists "tracks"; with or
\* without the fields the metadata scan looks for.
PageBodies ==
    {PageBody(r, p, c, "tracks", KoOnly, NoMeta) : r \in BOOLEAN, p \in BOOLEAN, c \in BOOLEAN}
    \cup
    {PageBody(FALSE, TRUE, TRUE, j, <<>>, NoMeta) : j \in {"invalid", "noRenderer", "noTracks"}}
    \cup
    {PageBody(FALSE, TRUE, TRUE, "tracks", t, NoMeta) : t \in PageTrackLists}
    \cup
    {PageBody(FALSE, TRUE, TRUE, "tracks", KoOnly, FullMeta)}

\* the <text> elements and other items a caption payload is made of
TXT_A == <<"a">>
TXT_MIXED == <<" ", "b", "&", "a", "m", "p", ";", "c", "\n", "d">>
NUM_0 == <<"0">>
NUM_1_5 == <<"1", ".", "5">>

PayloadItems ==
    { PayloadItem("text", NUM_0, NUM_1_5, TXT_A),
      PayloadItem("text", NUM_1_5, NUM_1_5, TXT_MIXED),
      PayloadItem("noise", <<>>, <<>>, <<"\n">>) }

Payloads == SeqsUpTo(PayloadItems, MaxElems)

\* what requestUrl resolves with for the caption URL (it rejects on status
\* >= 400): a 200 with any payload, or another 2xx status
CaptionResponses ==
    {[status |-> 200, text |-> p] : p \in Payloads} \cup {[status |-> 204, text |-> <<>>]}

\* the language preference lists download is called with
LanguageLists == { <<>>, <<KO, EN>> }

\* ------------------------------------------------------ video id extractor

\* the length {11} every identifier pattern asks for
IdLength == 11

\* the character class [a-zA-Z0-9_-]
IdAlphabet ==
    {"a", "b", "c", "d", "e", "f", "g", "h", "i", "j", "k", "l", "m",
     "n", "o", "p", "q", "r", "s", "t", "u", "v", "w", "x", "y", "z",
     "A", "B", "C", "D", "E", "F", "G", "H", "I", "J", "K", "L", "M",
     "N", "O", "P", "Q", "R", "S", "T", "U", "V", "W", "X", "Y", "Z",
     "0", "1", "2", "3", "4", "5", "6", "7", "8", "9", "_", "-"}

\* the characters the class [^"&?/\s] of RE_YOUTUBE excludes
CaptureStops == {"\"", "&", "?", "/"} \cup WhiteSpace

\* the line terminators '.' does not match, among the characters modelled
LineTerminators == {"\n"}

\* ([a-zA-Z0-9_-]{11}) matches at position i
IdRunAt(s, i) ==
    /\ i >= 1
    /\ i + IdLength - 1 <= Len(s)
    /\ \A k \in i..(i + IdLength - 1) : s[k] \in IdAlphabet

\* ([^"&?/\s]{11}) matches at position i
CaptureRunAt(s, i) ==
    /\ i >= 1
    /\ i + IdLength - 1 <= Len(s)
    /\ \A k \in i..(i + IdLength - 1) : s[k] \notin CaptureStops

\* the result of String.prototype.match without the g flag: where the match
\* starts and what the one capture group holds
RegExpMatch(index, group1) == [index |-> index, group1 |-> group1]

\* the 11 characters from position i on
Group(s, i) == SubSeq(s, i, i + IdLength - 1)

\* url.match(/<literal>([a-zA-Z0-9_-]{11})/) for a set of literals of which at
\* most one occurs at a position: the leftmost match
LiteralThenId(url, literals) ==
    LET at(p) == {lit \in literals : MatchesAt(url, lit, p) /\ IdRunAt(url, p + Len(lit))}
        hits == {p \in 1..Len(url) : at(p) # {}}
    IN  IF hits = {} THEN Null
        ELSE LET p == MinOf(hits)
                 lit == CHOOSE l \in at(p) : TRUE
             IN  RegExpMatch(p, Group(url, p + Len(lit)))

\* mutant: the canonical query-parameter pattern never matches
WatchPattern_Missing(url) == Null

\* /[?&]v=([a-zA-Z0-9_-]{11})/
WatchPattern(url) == LiteralThenId(url, {<<"?", "v", "=">>, <<"&", "v", "=">>})

\* /youtu\.be\/([a-zA-Z0-9_-]{11})/
ShortPattern(url) == LiteralThenId(url, {<<"y", "o", "u", "t", "u", ".", "b", "e", "/">>})

\* /youtube\.com\/embed\/([a-zA-Z0-9_-]{11})/
EmbedPattern(url) == LiteralThenId(url, {<<"y", "o", "u", "t", "u", "b", "e", ".", "c", "o", "m", "/", "e", "m", "b", "e", "d", "/">>})

\* /(?:youtube\.com|youtu\.be).*?([a-zA-Z0-9_-]{11})/: from the leftmost host
\* that can be completed, the nearest 11 alphabet characters on the same line
GenericPattern(url) ==
    LET hosts == {<<"y", "o", "u", "t", "u", "b", "e", ".", "c", "o", "m">>, <<"y", "o", "u", "t", "u", ".", "b", "e">>}
        ends(p) == {p + Len(h) : h \in {g \in hosts : MatchesAt(url, g, p)}}
        groups(p) == {k \in 1..Len(url) :
                        /\ \E e \in ends(p) :
                              /\ e <= k
                              /\ \A j \in e..(k - 1) : url[j] \notin LineTerminators
                        /\ IdRunAt(url, k)}
        hits == {p \in 1..Len(url) : groups(p) # {}}
    IN  IF hits = {} THEN Null
        ELSE RegExpMatch(MinOf(hits), Group(url, MinOf(groups(MinOf(hits)))))

\* id.replace(/[^a-zA-Z0-9_-]/g, '')
sanitizeVideoId(id) == SelectSeq(id, LAMBDA c : c \in IdAlphabet)

\* what a call ends with: a returned string, a returned null, a thrown error
Returned(value) == [kind |-> "return", value |-> value]
ReturnedNull == [kind |-> "null"]
Threw(error) == [kind |-> "throw", error |-> error]

\* new VideoIdNotFoundError(message) / new Error(message)
VideoIdNotFoundError(text) == [name |-> "VideoIdNotFoundError", message |-> Message(text)]
GenericError(text) == [name |-> "Error", message |-> Message(text)]

MsgInvalidUrl == "Invalid URL provided"
MsgCouldNotExtract == "Could not extract video ID from URL: ${url}"
\* the script's message (in Korean): "the video ID cannot be found"
MsgScriptNoId == "video ID not found"

\* VideoIdExtractor.extract, for string arguments
extract(url) ==
    IF Len(url) = 0 THEN Threw(VideoIdNotFoundError(MsgInvalidUrl))
    ELSE IF WatchPattern(url) # Null THEN Returned(sanitizeVideoId(WatchPattern(url).group1))
    ELSE IF ShortPattern(url) # Null THEN Returned(sanitizeVideoId(ShortPattern(url).group1))
    ELSE IF EmbedPattern(url) # Null THEN Returned(sanitizeVideoId(EmbedPattern(url).group1))
    ELSE IF GenericPattern(url) # Null THEN Returned(sanitizeVideoId(GenericPattern(url).group1))
    ELSE Threw(VideoIdNotFoundError(MsgCouldNotExtract))

\* extractVideoId of the test script: the first three patterns, in order
scriptExtractVideoId(url) ==
    IF WatchPattern(url) # Null THEN Returned(WatchPattern(url).group1)
    ELSE IF ShortPattern(url) # Null THEN Returned(ShortPattern(url).group1)
    ELSE IF EmbedPattern(url) # Null THEN Returned(EmbedPattern(url).group1)
    ELSE Threw(GenericError(MsgScriptNoId))

\* the i flag: the lower-case form of an upper-case letter
UpperCase == <<"A", "B", "C", "D", "E", "F", "G", "H", "I", "J", "K", "L", "M", "N", "O", "P", "Q", "R", "S", "T", "U", "V", "W", "X", "Y", "Z">>
LowerCase == <<"a", "b", "c", "d", "e", "f", "g", "h", "i", "j", "k", "l", "m", "n", "o", "p", "q", "r", "s", "t", "u", "v", "w", "x", "y", "z">>
ToLower(c) ==
    IF \E i \in 1..Len(UpperCase) : UpperCase[i] = c
    THEN LowerCase[CHOOSE i \in 1..Len(UpperCase) : UpperCase[i] = c]
    ELSE c

\* does the lower-case literal lit occur in s at position i, whatever the case
MatchesAtIgnoreCase(s, lit, i) ==
    /\ i >= 1
    /\ i + Len(lit) - 1 <= Len(s)
    /\ \A k \in 1..Len(lit) : ToLower(s[i + k - 1]) = lit[k]

\* after youtube\.com\/ (which ends before h): [^/]+\/.+\/ then the group.
\* [^/]+ runs to the first slash; .+ is greedy, so the last candidate slash
\* of the line is tried first
PathGroupStart(url, h) ==
    LET firsts == {s \in (h + 1)..Len(url) : url[s] = "/" /\ \A j \in h..(s - 1) : url[j] # "/"}
        starts == {k \in 1..Len(url) : \E s1 \in firsts :
                      /\ k - 1 >= s1 + 2
                      /\ url[k - 1] = "/"
                      /\ \A j \in (s1 + 1)..(k - 2) : url[j] \notin LineTerminators
                      /\ CaptureRunAt(url, k)}
    IN  IF starts = {} THEN 0 ELSE MaxOf(starts)

\* after youtube\.com\/: (?:v|e(?:mbed)?)\/ then the group
EmbedGroupStart(url, h) ==
    LET starts == {h + Len(lit) : lit \in {l \in {<<"v", "/">>, <<"e", "m", "b", "e", "d", "/">>, <<"e", "/">>} :
                      MatchesAtIgnoreCase(url, l, h) /\ CaptureRunAt(url, h + Len(l))}}
    IN  IF starts = {} THEN 0 ELSE MaxOf(starts)

\* after youtube\.com\/: .*[?&]v= then the group; .* is greedy, so the last
\* v= parameter of the line is tried first
QueryGroupStart(url, h) ==
    LET starts == {q + 3 : q \in {r \in h..Len(url) :
                      /\ \A j \in h..(r - 1) : url[j] \notin LineTerminators
                      /\ url[r] \in {"?", "&"}
                      /\ MatchesAtIgnoreCase(url, <<"v", "=">>, r + 1)
                      /\ CaptureRunAt(url, r + 3)}}
    IN  IF starts = {} THEN 0 ELSE MaxOf(starts)

\* where the group of RE_YOUTUBE starts for a match starting at p (0: no match
\* starts at p): the alternatives in the order the pattern lists them
YoutubeGroupStart(url, p) ==
    IF MatchesAtIgnoreCase(url, <<"y", "o", "u", "t", "u", "b", "e", ".", "c", "o", "m", "/">>, p)
    THEN LET h == p + 12
         IN  IF PathGroupStart(url, h) # 0 THEN PathGroupStart(url, h)
             ELSE IF EmbedGroupStart(url, h) # 0 THEN EmbedGroupStart(url, h)
             ELSE QueryGroupStart(url, h)
    ELSE IF MatchesAtIgnoreCase(url, <<"y", "o", "u", "t", "u", ".", "b", "e", "/">>, p) /\ CaptureRunAt(url, p + 9)
    THEN p + 9
    ELSE 0

\* url.match(RE_YOUTUBE)
MatchYoutube(url) ==
    LET hits == {p \in 1..Len(url) : YoutubeGroupStart(url, p) # 0}
    IN  IF hits = {} THEN Null
        ELSE RegExpMatch(MinOf(hits), Group(url, YoutubeGroupStart(url, MinOf(hits))))

\* TranscriptDownloader.extractVideoId (static)
extractVideoId(url) ==
    IF Len(url) = IdLength /\ \A i \in 1..Len(url) : url[i] \in IdAlphabet
    THEN Returned(url)
    ELSE IF MatchYoutube(url) # Null THEN Returned(MatchYoutube(url).group1)
    ELSE ReturnedNull

\* ------------------------------------------------------------ note updater

\* the first position >= i where the line holding position i ends: a line
\* terminator, or just after the last character
RECURSIVE LineEnd(_, _)
LineEnd(s, i) ==
    IF i > Len(s) \/ s[i] \in LineTerminators THEN i ELSE LineEnd(s, i + 1)

\* $ under the m flag matches at position q
AtLineEnd(s, q) == q = Len(s) + 1 \/ (q <= Len(s) /\ s[q] \in LineTerminators)

\* ^ under the m flag matches at position p
AtLineStart(s, p) == p = 1 \/ (p >= 2 /\ p <= Len(s) + 1 /\ s[p - 1] \in LineTerminators)

\* the positions where a line starts with the field name key (key ends in ':')
FieldStarts(fm, key) == {p \in 1..Len(fm) : AtLineStart(fm, p) /\ MatchesAt(fm, key, p)}

\* /^key\s*$/m.test(fm) || /^key\s*""$/m.test(fm): some line starting with
\* the key continues with whitespace only, or with whitespace and ""
FieldIsEmpty(fm, key) ==
    \E p \in FieldStarts(fm, key) :
        \E q \in (p + Len(key))..RunEnd(fm, p + Len(key), WhiteSpace) :
            \/ AtLineEnd(fm, q)
            \/ MatchesAt(fm, <<"\"", "\"">>, q) /\ AtLineEnd(fm, q + 2)

\* fm.replace(/^key\s*.*$/m, repl): the first line starting with the key; \s*
\* is greedy and also takes line terminators, .* then runs to the end of the
\* line it has reached
ReplaceField(fm, key, repl) ==
    IF FieldStarts(fm, key) = {} THEN fm
    ELSE LET p == MinOf(FieldStarts(fm, key))
             e == RunEnd(fm, p + Len(key), WhiteSpace)
             le == LineEnd(fm, e)
         IN  SubSeq(fm, 1, p - 1) \o repl \o SubSeq(fm, le, Len(fm))

FENCE == <<"-", "-", "-">>
KEY_CATEGORY == <<"c", "a", "t", "e", "g", "o", "r", "y", ":">>
KEY_TOPICS == <<"t", "o", "p", "i", "c", "s", "_", "k", "r", ":">>

\* content.match(/^---\n([\s\S]*?)\n---/): where the closing "\n---" starts,
\* or 0 when the content has no frontmatter
FrontmatterClose(content) ==
    LET closes == {i \in 5..Len(content) : MatchesAt(content, <<"\n">> \o FENCE, i)}
    IN  IF MatchesAt(content, FENCE \o <<"\n">>, 1) /\ closes # {} THEN MinOf(closes) ELSE 0

CategoryIsEmpty(fm) == FieldIsEmpty(fm, KEY_CATEGORY)

\* NoteUpdater.updateFrontmatter: category and topics_kr are filled when empty
updateFrontmatter(content, sections) ==
    LET close == FrontmatterClose(content)
        fm0 == SubSeq(content, 5, close - 1)
        fm1 == IF CategoryIsEmpty(fm0)
               THEN ReplaceField(fm0, KEY_CATEGORY,
                                 KEY_CATEGORY \o <<" ", "\"">> \o sections.category \o <<"\"">>)
               ELSE fm0
        fm2 == IF FieldIsEmpty(fm1, KEY_TOPICS)
               THEN ReplaceField(fm1, KEY_TOPICS,
                                 KEY_TOPICS \o <<" ", "\"">> \o sections.topicsKr \o <<"\"">>)
               ELSE fm1
    IN  IF close = 0 THEN content
        ELSE FENCE \o <<"\n">> \o fm2 \o <<"\n">> \o FENCE
                \o SubSeq(content, close + 4, Len(content))

\* /\n---\n\n## [0-9]+\. [\s\S]*$/: where the first generated-looking section
\* starts, or 0
SectionStart(content) ==
    LET head == <<"\n", "-", "-", "-", "\n", "\n", "#", "#", " ">>
        starts == {i \in 1..Len(content) :
                      /\ MatchesAt(content, head, i)
                      /\ RunEnd(content, i + Len(head), DecDigits) > i + Len(head)
                      /\ MatchesAt(content, <<".", " ">>, RunEnd(content, i + Len(head), DecDigits))}
    IN  IF starts = {} THEN 0 ELSE MinOf(starts)

\* NoteUpdater.removeExistingSections: everything from the first numbered
\* section to the end of the note goes
removeExistingSections(content) ==
    IF SectionStart(content) = 0 THEN content
    ELSE SubSeq(content, 1, SectionStart(content) - 1)

CLIPPED == <<"*", "C", "l", "i", "p", "p", "e", "d", ":">>

\* NoteUpdater.findInsertPosition: the number of characters up to the end of
\* the first *Clipped:...* marker, or the length of the note
findInsertPosition(content) ==
    LET closing(p) == {j \in (p + Len(CLIPPED))..Len(content) :
                          /\ content[j] = "*"
                          /\ \A k \in (p + Len(CLIPPED))..(j - 1) : content[k] \notin LineTerminators}
        hits == {p \in 1..Len(content) : MatchesAt(content, CLIPPED, p) /\ closing(p) # {}}
    IN  IF hits = {} THEN Len(content) ELSE MinOf(closing(MinOf(hits)))

\* NoteUpdater.formatCallout: a callout header, then every line of the content
\* behind "> "
formatCallout(type, title, content) ==
    <<">", " ", "[", "!">> \o type \o <<"]", " ">> \o title \o <<"\n", ">", " ">> \o ReplaceAll(content, <<"\n">>, <<"\n", ">", " ">>)

RECURSIVE DecString(_)
\* Number.prototype.toString for a natural number
DecString(n) ==
    IF n < 10 THEN <<CHOOSE d \in DecDigits : DigitValue(d) = n>>
    ELSE DecString(n \div 10) \o DecString(n % 10)

\* n.toString().padStart(2, '0')
PadStart2(n) == IF n < 10 THEN <<"0">> \o DecString(n) ELSE DecString(n)

\* NoteUpdater.formatTimestamp, for a number of whole seconds
formatTimestamp(seconds) ==
    LET h == seconds \div 3600
        m == (seconds % 3600) \div 60
        s == seconds % 60
    IN  IF h > 0 THEN DecString(h) \o <<":">> \o PadStart2(m) \o <<":">> \o PadStart2(s)
        ELSE DecString(m) \o <<":">> \o PadStart2(s)

\* the text written when there is no segment (the Korean for "no captions")
NO_TRANSCRIPT == <<"*", "n", "o", " ", "c", "a", "p", "t", "i", "o", "n", "s", "*">>

\* NoteUpdater.formatTranscript; an absent segments or videoId is the empty one
formatTranscript(segments, videoId) ==
    IF Len(segments) = 0 THEN NO_TRANSCRIPT
    ELSE JoinWith(
           [i \in 1..Len(segments) |->
              LET secs == segments[i].offset.milli \div 1000
                  timestamp == formatTimestamp(secs)
                  link == IF Len(videoId) > 0
                          THEN <<"[">> \o timestamp \o <<"]", "(", "h", "t", "t", "p", "s", ":", "/", "/", "w", "w", "w", ".", "y", "o", "u", "t", "u", "b", "e", ".", "c", "o", "m", "/", "w", "a", "t", "c", "h", "?", "v", "=">>
                                  \o videoId \o <<"&", "t", "=">> \o DecString(secs) \o <<"s", ")">>
                          ELSE timestamp
              IN  <<"*", "*">> \o link \o <<"*", "*", " ">> \o segments[i].text],
           <<"\n", "\n">>)

\* the "My Notes" section of the template, left for the user to fill
MY_NOTES ==
    <<"#", "#", " ", "7", ".", " ", "M", "y", " ", "N", "o", "t", "e", "s", "\n", "\n", "#", "#", "#", " ", "R", "e", "l", "a", "t", "e", "d", " ", "K", "n", "o", "w", "l", "e", "d", "g", "e", "\n", "-", " ", "\n", "\n", "#", "#", "#", " ", "I", "d", "e", "a", "s", "\n", "-", " ", "\n", "\n", "#", "#", "#", " ", "P", "e", "r", "s", "o", "n", "a", "l", " ", "M", "e", "m", "o", "\n", "-", " ">>

\* NoteUpdater.generateAllSections (the Korean callout and section titles are
\* written in English)
generateAllSections(sections, segments, videoId) ==
    LET rule == <<"\n", "\n", "-", "-", "-", "\n", "\n">>
    IN  <<"\n", "-", "-", "-", "\n", "\n", "#", "#", " ", "1", ".", " ", "E", "x", "e", "c", "u", "t", "i", "v", "e", " ", "S", "u", "m", "m", "a", "r", "y", "\n", "\n">>
          \o formatCallout(<<"s", "u", "m", "m", "a", "r", "y">>, <<"E", "x", "e", "c", "u", "t", "i", "v", "e", " ", "S", "u", "m", "m", "a", "r", "y">>, sections.executiveSummary)
          \o rule \o <<"#", "#", " ", "2", ".", " ", "C", "h", "a", "p", "t", "e", "r", " ", "A", "n", "a", "l", "y", "s", "i", "s", "\n", "\n">>
          \o formatCallout(<<"n", "o", "t", "e">>, <<"C", "h", "a", "p", "t", "e", "r", " ", "A", "n", "a", "l", "y", "s", "i", "s">>, sections.chapterAnalysis)
          \o rule \o <<"#", "#", " ", "3", ".", " ", "K", "e", "y", " ", "C", "o", "n", "c", "e", "p", "t", "s", "\n", "\n">>
          \o formatCallout(<<"i", "n", "f", "o">>, <<"K", "e", "y", " ", "C", "o", "n", "c", "e", "p", "t", "s">>, sections.keyConcepts)
          \o rule \o <<"#", "#", " ", "4", ".", " ", "D", "e", "t", "a", "i", "l", "e", "d", " ", "N", "o", "t", "e", "s", "\n", "\n">>
          \o formatCallout(<<"n", "o", "t", "e">>, <<"D", "e", "t", "a", "i", "l", "e", "d", " ", "N", "o", "t", "e", "s">>, sections.detailedNotes)
          \o rule \o <<"#", "#", " ", "5", ".", " ", "A", "c", "t", "i", "o", "n", " ", "I", "t", "e", "m", "s", "\n", "\n">>
          \o formatCallout(<<"t", "i", "p">>, <<"A", "c", "t", "i", "o", "n", " ", "I", "t", "e", "m", "s">>, sections.actionItems)
          \o rule \o <<"#", "#", " ", "6", ".", " ", "F", "e", "y", "n", "m", "a", "n", " ", "E", "x", "p", "l", "a", "n", "a", "t", "i", "o", "n", "\n", "\n">>
          \o formatCallout(<<"t", "i", "p">>, <<"E", "a", "s", "y", " ", "E", "x", "p", "l", "a", "n", "a", "t", "i", "o", "n">>, sections.feynmanExplanation)
          \o rule \o MY_NOTES
          \o rule \o <<"#", "#", " ", "8", ".", " ", "T", "r", "a", "n", "s", "c", "r", "i", "p", "t", "\n", "\n">>
          \o formatTranscript(segments, videoId) \o <<"\n">>

\* NoteUpdater.updateFlexible
updateFlexible(currentContent, sections, segments, videoId) ==
    LET withFrontmatter == updateFrontmatter(currentContent, sections)
        updatedContent == removeExistingSections(withFrontmatter)
        generatedSections == generateAllSections(sections, segments, videoId)
        insertPosition == findInsertPosition(updatedContent)
    IN  SubSeq(updatedContent, 1, insertPosition)
          \o <<"\n">> \o generatedSections
          \o SubSeq(updatedContent, insertPosition + 1, Len(updatedContent))

\* -------------------------------------------------------- download: state

VARIABLES
    maxRetries,       \* this.maxRetries
    languages,        \* the languages argument
    pc,               \* where download stands: an await point, or finished
    attempt,          \* the loop counter
    lastError,        \* let lastError
    videoPageBody,    \* const videoPageBody of the current attempt
    captionTrack,     \* const captionTrack of the current attempt
    transcriptResponse, \* const transcriptResponse of the current attempt
    returned,         \* the value download resolved with
    thrown,           \* the error download rejected with
    log,              \* history: the requestUrl and sleep calls made, in order
    caught,           \* history: the errors the catch block received, in order
    selTracks,        \* resolver run: the tracks argument
    selPrefs,         \* resolver run: the preferredLanguages argument
    selPc,            \* resolver run: "ready" before the call, "returned" after
    selected,         \* resolver run: the value findBestCaptionTrack returned
    exUrl,            \* extractor run: the url argument
    exPc,             \* extractor run: "ready", then the name of the function called
    exOutcome,        \* extractor run: what the call returned or threw
    decPlain,         \* decoder run: the caption text before it was written as markup
    decText,          \* decoder run: the text argument
    decPc,            \* decoder run: "ready" before the call, "decoded" after
    decResult,        \* decoder run: the string decodeHTMLEntities returned
    parseXml,         \* parser run: the xml argument
    parsePc,          \* parser run: "ready" before the call, "parsed" after
    parseResult,      \* parser run: the segments parseTranscriptXML returned
    noteOriginal,     \* note: its content before it was ever processed
    noteContent,      \* note: its content now
    noteSections,     \* note: the sections argument of updateFlexible
    noteMemo,         \* note: what the user wrote under "My Notes" since
    noteRuns,         \* note: how many times it was processed
    settings,         \* plugin: this.settings (createBackup, claudeApiKey set or not)
    frontmatter,      \* plugin: the frontmatter the metadata cache has for the note
    vaultContent,     \* plugin: the content of the note file in the vault
    backups,          \* plugin: the contents of the backup files created
    invocations,      \* plugin: the locals of every processCurrentNote call
    calls,            \* two downloads: the locals of each download call
    lastIndex,        \* two downloads: RE_XML_TRANSCRIPT.lastIndex, shared by all calls
    aiApiKey,         \* AI processor: this.apiKey
    aiClient,         \* AI processor: this.client, null until a client was made
    aiPc,             \* AI processor: where processAllSections stands
    aiRequests,       \* AI processor: how many requests were sent to the service
    aiReply,          \* AI processor: what the last request settled with
    aiOutcome,        \* AI processor: what processAllSections returned or threw
    tabSettings,      \* settings tab: this.plugin.settings
    tabSaved,         \* settings tab: the settings saveData wrote last
    tabLast           \* settings tab: the last edit made and what it found

downloadVars == <<maxRetries, languages, pc, attempt, lastError, videoPageBody, captionTrack,
          transcriptResponse, returned, thrown, log, caught>>

resolverVars == <<selTracks, selPrefs, selPc, selected>>

extractorVars == <<exUrl, exPc, exOutcome>>

decoderVars == <<decPlain, decText, decPc, decResult>>

parserVars == <<parseXml, parsePc, parseResult>>

noteVars == <<noteOriginal, noteContent, noteSections, noteMemo, noteRuns>>

pluginVars == <<settings, frontmatter, vaultContent, backups, invocations>>

callsVars == <<calls, lastIndex>>

aiVars == <<aiApiKey, aiClient, aiPc, aiRequests, aiReply, aiOutcome>>

tabVars == <<tabSettings, tabSaved, tabLast>>

\* the variables download does not touch
nonDownloadVars ==
    <<resolverVars, extractorVars, decoderVars, parserVars, noteVars, pluginVars, callsVars,
      aiVars, tabVars>>
nonResolverVars ==
    <<downloadVars, extractorVars, decoderVars, parserVars, noteVars, pluginVars,
      callsVars, aiVars, tabVars>>
nonExtractorVars ==
    <<downloadVars, resolverVars, decoderVars, parserVars, noteVars, pluginVars,
      callsVars, aiVars, tabVars>>
nonDecoderVars ==
    <<downloadVars, resolverVars, extractorVars, parserVars, noteVars, pluginVars,
      callsVars, aiVars, tabVars>>
nonParserVars ==
    <<downloadVars, resolverVars, extractorVars, decoderVars, noteVars, pluginVars,
      callsVars, aiVars, tabVars>>
nonNoteVars ==
    <<downloadVars, resolverVars, extractorVars, decoderVars, parserVars, pluginVars,
      callsVars, aiVars, tabVars>>
nonPluginVars ==
    <<downloadVars, resolverVars, extractorVars, decoderVars, parserVars, noteVars,
      callsVars, aiVars, tabVars>>

nonCallsVars ==
    <<downloadVars, resolverVars, extractorVars, decoderVars, parserVars, noteVars, pluginVars,
      aiVars, tabVars>>
nonAiVars ==
    <<downloadVars, resolverVars, extractorVars, decoderVars, parserVars, noteVars, pluginVars,
      callsVars, tabVars>>
nonTabVars ==
    <<downloadVars, resolverVars, extractorVars, decoderVars, parserVars, noteVars, pluginVars,
      callsVars, aiVars>>

vars == <<downloadVars, nonDownloadVars>>

\* one call of requestUrl (op "page" or "caption") or of sleep (op "sleep", with
\* its delay), made during the attempt numbered att
Event(op, att, ms) == [op |-> op, attempt |-> att, ms |-> ms]

\* ---------------------------------------------------- download: operators

\* mutant: the body runs once before the condition is first tested
LoopCondition_AtLeastOnce(att, max) == att < max \/ att = 0

\* for (...; attempt < this.maxRetries; ...)
LoopCondition(att, max) == att < max

\* mutant: the playabilityStatus check is missing
PageError_NoPlayabilityCheck(body) ==
    IF body.recaptcha THEN TranscriptNotFoundError(MsgRateLimited)
    ELSE IF ~body.captions THEN TranscriptNotFoundError(MsgDisabled)
    ELSE IF body.captionsJson = "invalid" THEN TranscriptNotFoundError(MsgParseFailed)
    ELSE IF body.captionsJson # "tracks" \/ Len(body.captionTracks) = 0
    THEN TranscriptNotFoundError(MsgNoTranscript)
    ELSE Null

\* the checks between the page fetch and the track selection: the error
\* the first failing check throws, or Null when all pass
PageError(body) ==
    IF body.recaptcha THEN TranscriptNotFoundError(MsgRateLimited)
    ELSE IF ~body.playabilityStatus THEN TranscriptNotFoundError(MsgUnavailable)
    ELSE IF ~body.captions THEN TranscriptNotFoundError(MsgDisabled)
    ELSE IF body.captionsJson = "invalid" THEN TranscriptNotFoundError(MsgParseFailed)
    ELSE IF body.captionsJson # "tracks" \/ Len(body.captionTracks) = 0
    THEN TranscriptNotFoundError(MsgNoTranscript)
    ELSE Null

\* the checks after the caption fetch: the error thrown, or Null
CaptionError(response) ==
    IF response.status # 200 THEN TranscriptNotFoundError(MsgDownloadFailed)
    ELSE IF Len(parseTranscriptXML(response.text)) = 0 THEN TranscriptNotFoundError(MsgEmpty)
    ELSE Null

\* title with ' - YouTube' removed ('Unknown' without a <title>)
PageTitle(title) ==
    IF title = Undefined THEN "Unknown"
    ELSE IF title = "Talk - YouTube" THEN "Talk" ELSE title

extractMetadataFromPage(html) ==
    [title |-> PageTitle(html.meta.title),
     author |-> IF html.meta.author = Undefined THEN "Unknown" ELSE html.meta.author,
     publishDate |-> html.meta.publishDate,
     duration |-> html.meta.lengthSeconds]

\* the object download returns
TranscriptResult(response, body) ==
    [text |-> FullText(parseTranscriptXML(response.text)),
     metadata |-> extractMetadataFromPage(body)]

\* mutant: the catch block does not tell TranscriptNotFoundError apart
IsTranscriptNotFound_Never(error) == FALSE

\* error instanceof TranscriptNotFoundError
IsTranscriptNotFound(error) == error.name = "TranscriptNotFoundError"

\* mutant: off by one, the last attempt is not recognised
IsLastAttempt_OffByOne(att, max) == att = max

\* attempt === this.maxRetries - 1
IsLastAttempt(att, max) == att = max - 1

RECURSIVE Pow2(_)
Pow2(n) == IF n <= 0 THEN 1 ELSE 2 * Pow2(n - 1)

\* mutant: linear backoff, 1000 * (attempt + 1)
BackoffDelay_Linear(att) == 1000 * (att + 1)

\* const delay = 1000 * Math.pow(2, attempt)
BackoffDelay(att) == 1000 * Pow2(att)

\* lastError?.message || 'Unknown error'
LastMessage(error) ==
    IF error = Null \/ error.message.text = "" THEN "Unknown error" ELSE error.message.text

\* mutant: the first error caught is kept instead of the last
ExhaustedError_FirstError(max, error) ==
    [name |-> "TranscriptNotFoundError",
     message |-> [text |-> MsgExhausted, attempts |-> max,
                  inner |-> LastMessage(IF Len(caught) > 0 THEN caught[1] ELSE error)]]

\* the error thrown after the loop
ExhaustedError(max, error) ==
    [name |-> "TranscriptNotFoundError",
     message |-> [text |-> MsgExhausted, attempts |-> max, inner |-> LastMessage(error)]]

\* ------------------------------------------------------ download: actions

\* download has not been called
DownloadIdle ==
    /\ maxRetries = 0
    /\ languages = <<>>
    /\ pc = "unused"
    /\ attempt = 0
    /\ lastError = Null
    /\ videoPageBody = Null
    /\ captionTrack = Null
    /\ transcriptResponse = Null
    /\ returned = Null
    /\ thrown = Null
    /\ log = <<>>
    /\ caught = <<>>

\* the resolver is not run on its own
ResolverIdle ==
    /\ selTracks = <<>>
    /\ selPrefs = <<>>
    /\ selPc = "unused"
    /\ selected = Null

ExtractorIdle ==
    /\ exUrl = <<>>
    /\ exPc = "unused"
    /\ exOutcome = Null

DecoderIdle ==
    /\ decPlain = <<>>
    /\ decText = <<>>
    /\ decPc = "unused"
    /\ decResult = <<>>

ParserIdle ==
    /\ parseXml = <<>>
    /\ parsePc = "unused"
    /\ parseResult = <<>>

NoteIdle ==
    /\ noteOriginal = <<>>
    /\ noteContent = <<>>
    /\ noteSections = Null
    /\ noteMemo = <<>>
    /\ noteRuns = 0

PluginIdle ==
    /\ settings = Null
    /\ frontmatter = Null
    /\ vaultContent = <<>>
    /\ backups = {}
    /\ invocations = <<>>

CallsIdle ==
    /\ calls = <<>>
    /\ lastIndex = 0

AiIdle ==
    /\ aiApiKey = ""
    /\ aiClient = Null
    /\ aiPc = "unused"
    /\ aiRequests = 0
    /\ aiReply = Null
    /\ aiOutcome = Null

TabIdle ==
    /\ tabSettings = Null
    /\ tabSaved = Null
    /\ tabLast = Null

Init ==
    /\ ResolverIdle
    /\ ExtractorIdle
    /\ DecoderIdle
    /\ ParserIdle
    /\ NoteIdle
    /\ PluginIdle
    /\ CallsIdle
    /\ AiIdle
    /\ TabIdle
    /\ maxRetries \in -1..MaxRetriesBound
    /\ languages \in LanguageLists
    /\ pc = "idle"
    /\ attempt = 0
    /\ lastError = Null
    /\ videoPageBody = Null
    /\ captionTrack = Null
    /\ transcriptResponse = Null
    /\ returned = Null
    /\ thrown = Null
    /\ log = <<>>
    /\ caught = <<>>

\* mutant: a retry resumes where the failed attempt stood, at the caption
\* request for the track selected earlier, instead of starting from the page
EnterLoop_Resumes(att, err) ==
    /\ attempt' = att
    /\ transcriptResponse' = Null
    /\ UNCHANGED <<videoPageBody, captionTrack>>
    /\ IF ~LoopCondition(att, maxRetries)
       THEN /\ pc' = "failed"
            /\ log' = log
            /\ thrown' = ExhaustedError(maxRetries, err)
       ELSE IF captionTrack # Null
       THEN /\ pc' = "awaitCaption"
            /\ log' = Append(log, Event("caption", att, 0))
            /\ thrown' = Null
       ELSE /\ pc' = "awaitPage"
            /\ log' = Append(log, Event("page", att, 0))
            /\ thrown' = Null

\* The loop head with counter att and last error err: either the next
\* attempt begins with its page request, or the loop ends and the
\* exhaustion error is thrown.
EnterLoop(att, err) ==
    /\ attempt' = att
    /\ videoPageBody' = Null
    /\ captionTrack' = Null
    /\ transcriptResponse' = Null
    /\ IF LoopCondition(att, maxRetries)
       THEN /\ pc' = "awaitPage"
            /\ log' = Append(log, Event("page", att, 0))
            /\ thrown' = Null
       ELSE /\ pc' = "failed"
            /\ log' = log
            /\ thrown' = ExhaustedError(maxRetries, err)

\* mutant: the catch block swallows a TranscriptNotFoundError, and the call
\* resolves with nothing
Catch_Swallows(error) ==
    /\ lastError' = error
    /\ caught' = Append(caught, error)
    /\ IF IsTranscriptNotFound(error)
       THEN /\ pc' = "done"
            /\ thrown' = Null
            /\ log' = log
       ELSE IF IsLastAttempt(attempt, maxRetries)
       THEN /\ pc' = "failed"
            /\ thrown' = ExhaustedError(maxRetries, error)
            /\ log' = log
       ELSE /\ pc' = "sleeping"
            /\ thrown' = Null
            /\ log' = Append(log, Event("sleep", attempt, BackoffDelay(attempt)))

\* The catch block, and what follows a break.
Catch(error) ==
    /\ lastError' = error
    /\ caught' = Append(caught, error)
    /\ IF IsTranscriptNotFound(error)
       THEN /\ pc' = "failed"
            /\ thrown' = error
            /\ log' = log
       ELSE IF IsLastAttempt(attempt, maxRetries)
       THEN /\ pc' = "failed"
            /\ thrown' = ExhaustedError(maxRetries, error)
            /\ log' = log
       ELSE /\ pc' = "sleeping"
            /\ thrown' = Null
            /\ log' = Append(log, Event("sleep", attempt, BackoffDelay(attempt)))

\* download is called
Download ==
    /\ pc = "idle"
    /\ lastError' = Null
    /\ EnterLoop(0, Null)
    /\ UNCHANGED <<maxRetries, languages, returned, caught>>
    /\ UNCHANGED nonDownloadVars

\* the page request rejects
PageRejected ==
    /\ pc = "awaitPage"
    /\ \E text \in RequestErrorTexts : Catch(RequestError(text))
    /\ UNCHANGED <<maxRetries, languages, attempt, videoPageBody, captionTrack,
                   transcriptResponse, returned>>
    /\ UNCHANGED nonDownloadVars

\* the page request resolves: the checks, the track selection, the caption request
PageResponse ==
    /\ pc = "awaitPage"
    /\ \E body \in PageBodies :
        LET track == findBestCaptionTrack(body.captionTracks, languages)
        IN  /\ videoPageBody' = body
            /\ IF PageError(body) # Null
               THEN /\ Catch(PageError(body))
                    /\ captionTrack' = Null
               ELSE IF track = Null
               THEN /\ Catch(TranscriptNotFoundError(MsgNoLanguage))
                    /\ captionTrack' = Null
               ELSE /\ captionTrack' = track
                    /\ log' = Append(log, Event("caption", attempt, 0))
                    /\ pc' = "awaitCaption"
                    /\ UNCHANGED <<lastError, caught, thrown>>
    /\ UNCHANGED <<maxRetries, languages, attempt, transcriptResponse, returned>>
    /\ UNCHANGED nonDownloadVars

\* the caption request rejects
CaptionRejected ==
    /\ pc = "awaitCaption"
    /\ \E text \in RequestErrorTexts : Catch(RequestError(text))
    /\ UNCHANGED <<maxRetries, languages, attempt, videoPageBody, captionTrack,
                   transcriptResponse, returned>>
    /\ UNCHANGED nonDownloadVars

\* the caption request resolves: status check, parse, result
CaptionResponse ==
    /\ pc = "awaitCaption"
    /\ \E response \in CaptionResponses :
        /\ transcriptResponse' = response
        /\ IF CaptionError(response) # Null
           THEN /\ Catch(CaptionError(response))
                /\ returned' = returned
           ELSE /\ returned' = TranscriptResult(response, videoPageBody)
                /\ pc' = "done"
                /\ UNCHANGED <<lastError, caught, thrown, log>>
    /\ UNCHANGED <<maxRetries, languages, attempt, videoPageBody, captionTrack>>
    /\ UNCHANGED nonDownloadVars

\* the backoff sleep resolves: attempt++ and the loop head
SleepDone ==
    /\ pc = "sleeping"
    /\ EnterLoop(attempt + 1, lastError)
    /\ UNCHANGED <<maxRetries, languages, lastError, returned, caught>>
    /\ UNCHANGED nonDownloadVars

Next ==
    \/ Download
    \/ PageRejected
    \/ PageResponse
    \/ CaptionRejected
    \/ CaptionResponse
    \/ SleepDone

Spec == Init /\ [][Next]_vars

\* a pending requestUrl promise settles
RequestSettles == PageRejected \/ PageResponse \/ CaptionRejected \/ CaptionResponse

\* download under the assumption that every HTTP request and every sleep it
\* awaits completes
SpecLive == Init /\ [][Next]_vars /\ WF_vars(RequestSettles) /\ WF_vars(SleepDone)

\* ------------------------------------------------------- derived history

\* the events of the log with the given op
EventsOf(op) == SelectSeq(log, LAMBDA e : e.op = op)

\* how many requestUrl calls for the watch page / a caption URL were made
PageFetches == Len(EventsOf("page"))
CaptionFetches == Len(EventsOf("caption"))

\* the delays slept, in order
Sleeps == [i \in 1..Len(EventsOf("sleep")) |-> EventsOf("sleep")[i].ms]

\* the events made during attempt att
EventsIn(att) == SelectSeq(log, LAMBDA e : e.attempt = att)

\* ----------------------------------------------- two downloads interleaved

\* the two download calls in flight together
Callers == {1, 2}

\* the locals of a download call that has not run yet; replies is history:
\* what each promise the call awaited settled with, in order
NewCall(max, langs) ==
    [maxRetries |-> max, languages |-> langs, pc |-> "idle", attempt |-> 0,
     lastError |-> Null, videoPageBody |-> Null, captionTrack |-> Null,
     returned |-> Null, thrown |-> Null, replies |-> <<>>]

\* what an awaited promise settled with: op is "page", "caption" or "sleep"
Reply(op, ok, value) == [op |-> op, ok |-> ok, value |-> value]

\* the loop head of call r with counter att
CallEnterLoop(r, att) ==
    IF LoopCondition(att, r.maxRetries)
    THEN [r EXCEPT !.attempt = att, !.pc = "awaitPage",
                   !.videoPageBody = Null, !.captionTrack = Null]
    ELSE [r EXCEPT !.attempt = att, !.pc = "failed",
                   !.thrown = ExhaustedError(r.maxRetries, r.lastError)]

\* the catch block of call r
CallCatch(r, error) ==
    IF IsTranscriptNotFound(error)
    THEN [r EXCEPT !.lastError = error, !.pc = "failed", !.thrown = error]
    ELSE IF IsLastAttempt(r.attempt, r.maxRetries)
    THEN [r EXCEPT !.lastError = error, !.pc = "failed",
                   !.thrown = ExhaustedError(r.maxRetries, error)]
    ELSE [r EXCEPT !.lastError = error, !.pc = "sleeping"]

\* Call r runs on from its await point, the awaited promise having settled
\* with reply, until its next await point or its end; the shared regex stands
\* at index when it runs. Gives the call's locals and the regex's lastIndex
\* afterwards.
Resume(r, reply, index) ==
    LET q == [r EXCEPT !.replies = Append(@, reply)]
    IN  IF r.pc = "sleeping"
        THEN [call |-> CallEnterLoop(q, r.attempt + 1), lastIndex |-> index]
        ELSE IF ~reply.ok
        THEN [call |-> CallCatch(q, reply.value), lastIndex |-> index]
        ELSE IF r.pc = "awaitPage"
        THEN LET body == reply.value
                 track == findBestCaptionTrack(body.captionTracks, r.languages)
                 got == [q EXCEPT !.videoPageBody = body]
             IN  [call |-> IF PageError(body) # Null THEN CallCatch(got, PageError(body))
                           ELSE IF track = Null
                           THEN CallCatch(got, TranscriptNotFoundError(MsgNoLanguage))
                           ELSE [got EXCEPT !.captionTrack = track, !.pc = "awaitCaption"],
                  lastIndex |-> index]
        ELSE LET response == reply.value
                 parsed == parseTranscriptXMLFrom(response.text, index)
             IN  IF response.status # 200
                 THEN [call |-> CallCatch(q, TranscriptNotFoundError(MsgDownloadFailed)),
                       lastIndex |-> index]
                 ELSE IF Len(parsed.results) = 0
                 THEN [call |-> CallCatch(q, TranscriptNotFoundError(MsgEmpty)),
                       lastIndex |-> parsed.lastIndex]
                 ELSE [call |-> [q EXCEPT !.pc = "done",
                                          !.returned =
                                              [text |-> FullText(parsed.results),
                                               metadata |->
                                                   extractMetadataFromPage(q.videoPageBody)]],
                       lastIndex |-> parsed.lastIndex]

\* the pages and caption responses the two calls are served
CallPageBodies ==
    { PageBody(FALSE, TRUE, TRUE, "tracks", KoOnly, FullMeta),
      PageBody(FALSE, FALSE, TRUE, "tracks", KoOnly, NoMeta) }

CallCaptionResponses ==
    { [status |-> 200, text |-> <<PayloadItem("text", NUM_0, NUM_1_5, TXT_A),
                                  PayloadItem("text", NUM_1_5, NUM_1_5, TXT_MIXED)>>],
      [status |-> 200, text |-> <<PayloadItem("text", NUM_0, NUM_1_5, TXT_A)>>],
      [status |-> 200, text |-> <<PayloadItem("noise", <<>>, <<>>, <<"\n">>)>>] }

CallRejection == RequestError("net::ERR_CONNECTION_RESET")

InitTwo ==
    /\ DownloadIdle
    /\ ResolverIdle
    /\ ExtractorIdle
    /\ DecoderIdle
    /\ ParserIdle
    /\ NoteIdle
    /\ PluginIdle
    /\ AiIdle
    /\ TabIdle
    /\ calls \in [Callers -> {NewCall(m, <<KO, EN>>) : m \in 1..MaxCallRetries}]
    /\ lastIndex = 0

\* call c of download begins
CallDownload(c) ==
    /\ calls[c].pc = "idle"
    /\ calls' = [calls EXCEPT ![c] = CallEnterLoop(calls[c], 0)]
    /\ UNCHANGED lastIndex
    /\ UNCHANGED nonCallsVars

\* the promise call c awaits settles with reply, and the call runs on
Settle(c, reply) ==
    /\ calls' = [calls EXCEPT ![c] = Resume(calls[c], reply, lastIndex).call]
    /\ lastIndex' = Resume(calls[c], reply, lastIndex).lastIndex
    /\ UNCHANGED nonCallsVars

CallPageRejected(c) ==
    /\ calls[c].pc = "awaitPage"
    /\ Settle(c, Reply("page", FALSE, CallRejection))

CallPageResponse(c) ==
    /\ calls[c].pc = "awaitPage"
    /\ \E body \in CallPageBodies : Settle(c, Reply("page", TRUE, body))

CallCaptionRejected(c) ==
    /\ calls[c].pc = "awaitCaption"
    /\ Settle(c, Reply("caption", FALSE, CallRejection))

CallCaptionResponse(c) ==
    /\ calls[c].pc = "awaitCaption"
    /\ \E response \in CallCaptionResponses : Settle(c, Reply("caption", TRUE, response))

CallSleepDone(c) ==
    /\ calls[c].pc = "sleeping"
    /\ Settle(c, Reply("sleep", TRUE, Null))

NextTwo ==
    \E c \in Callers :
        \/ CallDownload(c)
        \/ CallPageRejected(c)
        \/ CallPageResponse(c)
        \/ CallCaptionRejected(c)
        \/ CallCaptionResponse(c)
        \/ CallSleepDone(c)

SpecTwo == InitTwo /\ [][NextTwo]_vars

\* ------------------------------------------------ the resolver on its own

\* the tracks and preference lists the resolver is run on
TrackCodes == {KO, EN, EN_US, EN_GB, JA}
PrefCodes == {KO, EN, EN_US}
AllTracks == {CaptionTrack(u, l, k) : u \in {"u1", "u2"}, l \in TrackCodes, k \in {"asr", Undefined}}

InitSelect ==
    /\ DownloadIdle
    /\ PluginIdle
    /\ CallsIdle
    /\ AiIdle
    /\ TabIdle
    /\ NoteIdle
    /\ ExtractorIdle
    /\ DecoderIdle
    /\ ParserIdle
    /\ selTracks \in SeqsUpTo(AllTracks, MaxTracks)
    /\ selPrefs \in SeqsUpTo(PrefCodes, MaxPrefs)
    /\ selPc = "ready"
    /\ selected = Null

\* findBestCaptionTrack is called and returns
Select ==
    /\ selPc = "ready"
    /\ selected' = findBestCaptionTrack(selTracks, selPrefs)
    /\ selPc' = "returned"
    /\ UNCHANGED <<selTracks, selPrefs, nonResolverVars>>

NextSelect == Select

SpecSelect == InitSelect /\ [][NextSelect]_vars

\* ----------------------------------------------- the extractors on their own

\* well-shaped identifiers
ID_A == <<"d", "Q", "w", "4", "w", "9", "W", "g", "X", "c", "Q">>
ID_B == <<"c", "Q", "N", "f", "-", "j", "7", "x", "_", "c", "U">>

RECURSIVE Repeat(_, _)
\* n copies of the character c
Repeat(c, n) == IF n = 0 THEN <<>> ELSE <<c>> \o Repeat(c, n - 1)

\* what stands where the identifier is expected: nothing, an identifier, an
\* identifier followed by more alphabet characters, one character too few,
\* a character outside the alphabet inside
Tokens ==
    {<<>>, ID_B, <<"d", "Q", "w", "4", "w", "9", "W", "g", "X", "c">>, <<"d", "Q", "w", "4", "w", ".", "W", "g", "X", "c", "Q">>}
        \cup {ID_A \o Repeat("Q", n) : n \in 0..MaxExtra}

\* the text before the token; the first five are the canonical, shortened and
\* embed shapes
ShapePrefixes ==
    {<<"h", "t", "t", "p", "s", ":", "/", "/", "w", "w", "w", ".", "y", "o", "u", "t", "u", "b", "e", ".", "c", "o", "m", "/", "w", "a", "t", "c", "h", "?", "v", "=">>,
     <<"h", "t", "t", "p", "s", ":", "/", "/", "w", "w", "w", ".", "y", "o", "u", "t", "u", "b", "e", ".", "c", "o", "m", "/", "w", "a", "t", "c", "h", "?", "l", "i", "s", "t", "=", "P", "L", "0", "1", "2", "3", "4", "5", "6", "7", "8", "9", "&", "v", "=">>,
     <<"h", "t", "t", "p", "s", ":", "/", "/", "e", "x", "a", "m", "p", "l", "e", ".", "c", "o", "m", "/", "w", "a", "t", "c", "h", "?", "v", "=">>,
     <<"h", "t", "t", "p", "s", ":", "/", "/", "y", "o", "u", "t", "u", ".", "b", "e", "/">>,
     <<"h", "t", "t", "p", "s", ":", "/", "/", "w", "w", "w", ".", "y", "o", "u", "t", "u", "b", "e", ".", "c", "o", "m", "/", "e", "m", "b", "e", "d", "/">>}

OtherPrefixes ==
    {<<>>, <<" ">>,
     <<"h", "t", "t", "p", "s", ":", "/", "/", "w", "w", "w", ".", "y", "o", "u", "t", "u", "b", "e", ".", "c", "o", "m", "/", "s", "h", "o", "r", "t", "s", "/">>,
     <<"h", "t", "t", "p", "s", ":", "/", "/", "w", "w", "w", ".", "y", "o", "u", "t", "u", "b", "e", ".", "c", "o", "m", "/", "v", "/">>,
     <<"h", "t", "t", "p", "s", ":", "/", "/", "w", "w", "w", ".", "y", "o", "u", "t", "u", "b", "e", ".", "c", "o", "m", "/", "u", "s", "e", "r", "/", "m", "e", "/", "u", "/">>,
     <<"H", "T", "T", "P", "S", ":", "/", "/", "Y", "O", "U", "T", "U", ".", "B", "E", "/">>,
     <<"h", "t", "t", "p", "s", ":", "/", "/", "e", "x", "a", "m", "p", "l", "e", ".", "c", "o", "m", "/", "v", "i", "d", "e", "o", "/">>}

\* the text after the token: nothing, or text led by a delimiter
Suffixes == {<<>>, <<"&", "t", "=", "1", "2", "0", "s">>, <<"?", "s", "i", "=", "a", "b", "c">>, <<"/">>, <<".">>, <<" ", "\n">>}

\* the strings the extractors are called with
ExtractInputs ==
    {pre \o tok \o suf : pre \in ShapePrefixes \cup OtherPrefixes, tok \in Tokens, suf \in Suffixes}

InitExtract ==
    /\ DownloadIdle
    /\ PluginIdle
    /\ CallsIdle
    /\ AiIdle
    /\ TabIdle
    /\ NoteIdle
    /\ ResolverIdle
    /\ DecoderIdle
    /\ ParserIdle
    /\ exUrl \in ExtractInputs
    /\ exPc = "ready"
    /\ exOutcome = Null

\* new VideoIdExtractor().extract(url)
Extract ==
    /\ exPc = "ready"
    /\ exOutcome' = extract(exUrl)
    /\ exPc' = "extract"
    /\ UNCHANGED <<exUrl, nonExtractorVars>>

\* TranscriptDownloader.extractVideoId(url)
ExtractVideoId ==
    /\ exPc = "ready"
    /\ exOutcome' = extractVideoId(exUrl)
    /\ exPc' = "extractVideoId"
    /\ UNCHANGED <<exUrl, nonExtractorVars>>

\* extractVideoId(url) of the test script
ScriptExtractVideoId ==
    /\ exPc = "ready"
    /\ exOutcome' = scriptExtractVideoId(exUrl)
    /\ exPc' = "scriptExtractVideoId"
    /\ UNCHANGED <<exUrl, nonExtractorVars>>

NextExtract ==
    \/ Extract
    \/ ExtractVideoId
    \/ ScriptExtractVideoId

SpecExtract == InitExtract /\ [][NextExtract]_vars

\* ------------------------------------------------- the decoder on its own

\* the first entity of the table that decodes to the character c, or c itself
\* when the table has none
EntityFor(c) ==
    LET hits == {k \in 1..Len(Entities) : Entities[k][2] = <<c>>}
    IN  IF hits = {} THEN <<c>> ELSE Entities[MinOf(hits)][1]

RECURSIVE Encode(_)
\* the inverse of the entities table, character by character
Encode(s) == IF Len(s) = 0 THEN <<>> ELSE EntityFor(s[1]) \o Encode(Tail(s))

\* characters of caption text: three the table covers, and the letters and the
\* semicolon that make plain text look like an entity
DecodeChars == {"&", "<", "'", "l", "t", ";"}

\* the caption texts before they are written into the markup
PlainTexts == SeqsUpTo(DecodeChars, MaxLen)

InitDecode ==
    /\ DownloadIdle
    /\ PluginIdle
    /\ CallsIdle
    /\ AiIdle
    /\ TabIdle
    /\ NoteIdle
    /\ ResolverIdle
    /\ ExtractorIdle
    /\ ParserIdle
    /\ decPlain \in PlainTexts
    /\ decText \in {decPlain, Encode(decPlain)}
    /\ decPc = "ready"
    /\ decResult = <<>>

\* decodeHTMLEntities(text) is called and returns
Decode ==
    /\ decPc = "ready"
    /\ decResult' = decodeHTMLEntities(decText)
    /\ decPc' = "decoded"
    /\ UNCHANGED <<decPlain, decText, nonDecoderVars>>

NextDecode == Decode

SpecDecode == InitDecode /\ [][NextDecode]_vars

\* -------------------------------------------------- the parser on its own

NUM_BAD == <<"a", "b", "c">>

\* the items of a payload: the well-formed elements, elements whose start or
\* dur is no number, an element with dur before start, and noise
ParseItems ==
    PayloadItems \cup
    { PayloadItem("text", NUM_BAD, NUM_1_5, TXT_A),
      PayloadItem("text", NUM_0, <<>>, TXT_A),
      PayloadItem("durFirst", NUM_0, NUM_1_5, TXT_A) }

InitParse ==
    /\ DownloadIdle
    /\ PluginIdle
    /\ CallsIdle
    /\ AiIdle
    /\ TabIdle
    /\ NoteIdle
    /\ ResolverIdle
    /\ ExtractorIdle
    /\ DecoderIdle
    /\ parseXml \in SeqsUpTo(ParseItems, MaxParseElems)
    /\ parsePc = "ready"
    /\ parseResult = <<>>

\* parseTranscriptXML(xml) is called and returns
Parse ==
    /\ parsePc = "ready"
    /\ parseResult' = parseTranscriptXML(parseXml)
    /\ parsePc' = "parsed"
    /\ UNCHANGED <<parseXml, nonParserVars>>

NextParse == Parse

SpecParse == InitParse /\ [][NextParse]_vars

\* -------------------------------------------- the note updater on its own

\* ProcessedSections as the generation step hands them over
SectionsOf(text) ==
    [executiveSummary |-> text, chapterAnalysis |-> text, keyConcepts |-> text,
     detailedNotes |-> text, actionItems |-> text, feynmanExplanation |-> text,
     category |-> <<"t", "e", "c", "h">>, topicsKr |-> <<"a", "i">>]

SectionsInputs == {SectionsOf(<<"s">>), SectionsOf(<<"o", "n", "e", "\n", "t", "w", "o">>)}

\* texts the user wrote into the note
TXT_TITLE == <<"#", " ", "T", "i", "t", "l", "e">>
TXT_AFTER == <<"m", "y", " ", "t", "e", "x", "t">>
TXT_KEPT == <<" ", "k", "e", "p", "t">>
TXT_OWN == <<"m", "i", "n", "e">>
TXT_MEMO == <<"r", "e", "m", "e", "m", "b", "e", "r">>
FIELD_AUTHOR == <<"a", "u", "t", "h", "o", "r", ":", " ", "B", "o", "b">>
FIELD_SOURCE == <<"s", "o", "u", "r", "c", "e", "_", "u", "r", "l", ":", " ", "u">>

\* the frontmatter of a note: none, or fields between two fences
Frontmatters ==
    {<<>>,
     <<"-", "-", "-", "\n">> \o FIELD_SOURCE \o <<"\n", "c", "a", "t", "e", "g", "o", "r", "y", ":", "\n", "t", "o", "p", "i", "c", "s", "_", "k", "r", ":", "\n">> \o FIELD_AUTHOR \o <<"\n", "-", "-", "-", "\n">>,
     <<"-", "-", "-", "\n", "c", "a", "t", "e", "g", "o", "r", "y", ":", "\n">> \o FIELD_AUTHOR \o <<"\n", "-", "-", "-", "\n">>,
     <<"-", "-", "-", "\n", "c", "a", "t", "e", "g", "o", "r", "y", ":", " ", "\"", "\"", "\n", "t", "o", "p", "i", "c", "s", "_", "k", "r", ":", " ", "\"", "\"", "\n">> \o FIELD_AUTHOR \o <<"\n", "-", "-", "-", "\n">>,
     <<"-", "-", "-", "\n", "c", "a", "t", "e", "g", "o", "r", "y", ":", " ", "\"", "x", "\"", "\n">> \o FIELD_AUTHOR \o <<"\n", "-", "-", "-", "\n">>}

\* the body of a note: a title, the clip marker or none, text of the user
\* after it, a numbered section of the user's own
Bodies ==
    {TXT_TITLE \o <<"\n">> \o anchor \o after \o own :
        anchor \in {<<>>, <<"*", "C", "l", "i", "p", "p", "e", "d", ":", " ", "2", "0", "2", "4", "*", "\n">>, <<"*", "C", "l", "i", "p", "p", "e", "d", ":", " ", "2", "0", "2", "4", "*">> \o TXT_KEPT \o <<"\n">>},
        after \in {<<>>, TXT_AFTER \o <<"\n">>},
        own \in {<<>>, <<"\n", "-", "-", "-", "\n", "\n", "#", "#", " ", "1", ".", " ", "M", "i", "n", "e", "\n">> \o TXT_OWN \o <<"\n">>}}

\* the segments and videoId arguments: absent, or one segment and an id
SEGMENTS_ONE == <<[offset |-> Num(65500), duration |-> Num(1500), text |-> TXT_A]>>
TranscriptArgs == {<< <<>>, <<>> >>, <<SEGMENTS_ONE, ID_A>>}

InitNote ==
    /\ DownloadIdle
    /\ PluginIdle
    /\ CallsIdle
    /\ AiIdle
    /\ TabIdle
    /\ ResolverIdle
    /\ ExtractorIdle
    /\ DecoderIdle
    /\ ParserIdle
    /\ noteOriginal \in {f \o b : f \in Frontmatters, b \in Bodies}
    /\ noteContent = noteOriginal
    /\ noteSections \in SectionsInputs
    /\ noteMemo = <<>>
    /\ noteRuns = 0

\* the note is processed: its content becomes what updateFlexible returns
UpdateFlexible ==
    /\ noteRuns < MaxRuns
    /\ \E args \in TranscriptArgs :
          noteContent' = updateFlexible(noteContent, noteSections, args[1], args[2])
    /\ noteRuns' = noteRuns + 1
    /\ UNCHANGED <<noteOriginal, noteSections, noteMemo, nonNoteVars>>

\* where the list item under "### Personal Memo" ends
MemoPosition(content) ==
    LET hits == {i \in 1..Len(content) : MatchesAt(content, MY_NOTES, i)}
    IN  IF hits = {} THEN 0 ELSE MinOf(hits) + Len(MY_NOTES) - 1

\* the user writes a memo under "My Notes" of a processed note
WriteMemo ==
    /\ noteRuns >= 1
    /\ noteMemo = <<>>
    /\ MemoPosition(noteContent) # 0
    /\ noteContent' = SubSeq(noteContent, 1, MemoPosition(noteContent)) \o TXT_MEMO
                        \o SubSeq(noteContent, MemoPosition(noteContent) + 1, Len(noteContent))
    /\ noteMemo' = TXT_MEMO
    /\ UNCHANGED <<noteOriginal, noteSections, noteRuns, nonNoteVars>>

NextNote ==
    \/ UpdateFlexible
    \/ WriteMemo

SpecNote == InitNote /\ [][NextNote]_vars

\* ------------------------------------------------------ processCurrentNote

\* new AIProcessingError(message) / new APIKeyMissingError()
AIProcessingError(text) == [name |-> "AIProcessingError", message |-> Message(text)]
APIKeyMissingError == [name |-> "APIKeyMissingError",
                       message |-> Message("Please configure Claude API key in settings")]

MsgNoFrontmatter == "No frontmatter found. Is this a YouTube note?"
MsgNoSourceUrl == "No source_url found in frontmatter."
MsgAIFailed == "AI processing failed"
MsgVaultFailed == "vault operation failed"

\* the invocations of processCurrentNote, in the order they are triggered
Invocations == 1..MaxInvocations

\* the locals of an invocation that has not started
NotStarted ==
    [pc |-> "idle", currentContent |-> <<>>, updatedContent |-> <<>>, steps |-> <<>>,
     backup |-> <<>>, replaced |-> <<>>, error |-> Null]

\* the frontmatter the metadata cache holds for the note: none, one without
\* source_url, one whose source_url has no video id, one with a watch URL
NoteFrontmatters ==
    {Null,
     [source_url |-> <<>>],
     [source_url |-> <<"h", "t", "t", "p", "s", ":", "/", "/", "e", "x", "a", "m", "p", "l", "e", ".", "c", "o", "m", "/", "v", "i", "d", "e", "o", "/">>],
     [source_url |-> <<"h", "t", "t", "p", "s", ":", "/", "/", "y", "o", "u", "t", "u", ".", "b", "e", "/">> \o ID_A]}

\* the note the plugin works on
PLUGIN_NOTE ==
    <<"-", "-", "-", "\n", "c", "a", "t", "e", "g", "o", "r", "y", ":", " ", "\"", "\"", "\n">> \o FIELD_AUTHOR \o <<"\n", "-", "-", "-", "\n">> \o TXT_TITLE \o <<"\n", "*", "C", "l", "i", "p", "p", "e", "d", ":", " ", "2", "0", "2", "4", "*", "\n">>

\* extractVideoIdFromNote(file): what it returns or throws
extractVideoIdFromNote(fm) ==
    IF fm = Null THEN Threw(GenericError(MsgNoFrontmatter))
    ELSE IF Len(fm.source_url) = 0 THEN Threw(GenericError(MsgNoSourceUrl))
    ELSE extract(fm.source_url)

\* mutant: the backup is never asked for
BackupWanted_Never(s) == FALSE

\* if (this.settings.createBackup)
BackupWanted(s) == s.createBackup

InitPlugin ==
    /\ DownloadIdle
    /\ ResolverIdle
    /\ ExtractorIdle
    /\ DecoderIdle
    /\ ParserIdle
    /\ NoteIdle
    /\ CallsIdle
    /\ AiIdle
    /\ TabIdle
    /\ settings \in [createBackup : BOOLEAN, claudeApiKey : BOOLEAN]
    /\ frontmatter \in NoteFrontmatters
    /\ vaultContent = PLUGIN_NOTE
    /\ backups = {}
    /\ invocations = [r \in Invocations |-> NotStarted]

\* the invocation r moves on: its locals change as given
Step(r, changes) ==
    /\ invocations' = [invocations EXCEPT ![r] = changes @@ invocations[r]]

\* mutant: the catch block swallows the error and shows nothing
HandleError_Silent(r, error) ==
    Step(r, [pc |-> "done", error |-> error])

\* catch (error) { this.handleError(error) }: one error notice, and the
\* invocation is over
HandleError(r, error) ==
    Step(r, [pc |-> "done", error |-> error,
             steps |-> Append(invocations[r].steps, "errorNotice")])

\* processCurrentNote() up to its first await that leaves the plugin
ProcessCurrentNote(r, active) ==
    /\ invocations[r].pc = "idle"
    /\ \A q \in Invocations : q < r => invocations[q].pc # "idle"
    /\ IF ~active
       THEN Step(r, [pc |-> "done", steps |-> <<"noActiveNotice">>])
       ELSE IF extractVideoIdFromNote(frontmatter).kind = "throw"
       THEN HandleError(r, extractVideoIdFromNote(frontmatter).error)
       ELSE Step(r, [pc |-> "awaitDownload", steps |-> <<"download">>])
    /\ UNCHANGED <<settings, frontmatter, vaultContent, backups, nonPluginVars>>

\* the ribbon icon is clicked
RibbonClick == \E r \in Invocations, active \in BOOLEAN : ProcessCurrentNote(r, active)

\* the command is run: checkCallback calls processCurrentNote when a file is active
CommandRun == \E r \in Invocations : ProcessCurrentNote(r, TRUE)

\* downloadWithMetadata settles; on success the API key check and the AI call
DownloadSettled ==
    \E r \in Invocations, ok \in BOOLEAN :
        /\ invocations[r].pc = "awaitDownload"
        /\ IF ~ok THEN HandleError(r, TranscriptNotFoundError(MsgNoTranscript))
           ELSE IF ~settings.claudeApiKey THEN HandleError(r, APIKeyMissingError)
           ELSE Step(r, [pc |-> "awaitAI", steps |-> Append(invocations[r].steps, "ai")])
        /\ UNCHANGED <<settings, frontmatter, vaultContent, backups, nonPluginVars>>

\* processAllSections settles; on success createBackup is entered when the
\* setting asks for it, vault.read otherwise
AISettled ==
    \E r \in Invocations, ok \in BOOLEAN :
        /\ invocations[r].pc = "awaitAI"
        /\ IF ~ok THEN HandleError(r, AIProcessingError(MsgAIFailed))
           ELSE IF BackupWanted(settings)
           THEN Step(r, [pc |-> "awaitBackupRead",
                         steps |-> Append(invocations[r].steps, "backup")])
           ELSE Step(r, [pc |-> "awaitRead", steps |-> Append(invocations[r].steps, "read")])
        /\ UNCHANGED <<settings, frontmatter, vaultContent, backups, nonPluginVars>>

\* createBackup: vault.read settles; a rejection is caught and only logged
BackupReadSettled ==
    \E r \in Invocations, ok \in BOOLEAN :
        /\ invocations[r].pc = "awaitBackupRead"
        /\ IF ok
           THEN Step(r, [pc |-> "awaitBackupCreate", currentContent |-> vaultContent])
           ELSE Step(r, [pc |-> "awaitRead",
                         steps |-> invocations[r].steps \o <<"backupFailed", "read">>])
        /\ UNCHANGED <<settings, frontmatter, vaultContent, backups, nonPluginVars>>

\* createBackup: vault.create settles; a rejection is caught and only logged
BackupCreateSettled ==
    \E r \in Invocations, ok \in BOOLEAN :
        /\ invocations[r].pc = "awaitBackupCreate"
        /\ IF ok
           THEN /\ Step(r, [pc |-> "awaitRead", backup |-> <<invocations[r].currentContent>>,
                            steps |-> invocations[r].steps \o <<"backupCreated", "read">>])
                /\ backups' = backups \cup {invocations[r].currentContent}
           ELSE /\ Step(r, [pc |-> "awaitRead",
                            steps |-> invocations[r].steps \o <<"backupFailed", "read">>])
                /\ backups' = backups
        /\ UNCHANGED <<settings, frontmatter, vaultContent, nonPluginVars>>

\* vault.read settles; on success updateFlexible runs and vault.modify is called
ReadSettled ==
    \E r \in Invocations, ok \in BOOLEAN :
        /\ invocations[r].pc = "awaitRead"
        /\ IF ok
           THEN Step(r, [pc |-> "awaitModify", currentContent |-> vaultContent,
                         updatedContent |-> updateFlexible(vaultContent, SectionsOf(TXT_A),
                                                           <<>>, <<>>),
                         steps |-> Append(invocations[r].steps, "modify")])
           ELSE HandleError(r, GenericError(MsgVaultFailed))
        /\ UNCHANGED <<settings, frontmatter, vaultContent, backups, nonPluginVars>>

\* vault.modify settles: the note is written, or the rejection is handled
ModifySettled ==
    \E r \in Invocations, ok \in BOOLEAN :
        /\ invocations[r].pc = "awaitModify"
        /\ IF ok
           THEN /\ vaultContent' = invocations[r].updatedContent
                /\ Step(r, [pc |-> "done", replaced |-> <<vaultContent>>,
                            steps |-> Append(invocations[r].steps, "modified")])
           ELSE /\ vaultContent' = vaultContent
                /\ HandleError(r, GenericError(MsgVaultFailed))
        /\ UNCHANGED <<settings, frontmatter, backups, nonPluginVars>>

NextPlugin ==
    \/ RibbonClick
    \/ CommandRun
    \/ DownloadSettled
    \/ AISettled
    \/ BackupReadSettled
    \/ BackupCreateSettled
    \/ ReadSettled
    \/ ModifySettled

SpecPlugin == InitPlugin /\ [][NextPlugin]_vars

\* ---------------------------------------------------------- the AI processor

\* new APIKeyMissingError(message)
APIKeyMissingErrorWith(text) == [name |-> "APIKeyMissingError", message |-> Message(text)]

MsgUnexpectedType == "Unexpected response type from Claude API"
MsgParseFailedAI == "Failed to parse AI response: ${message}"
MsgRateLimit == "Rate limit reached. Please wait a few minutes and try again."
MsgInvalidKey == "Invalid API key. Please check your settings."
MsgInvalidRequest == "Invalid request. The transcript might be too long."
MsgProcessingFailed == "AI processing failed: ${message}"
MsgUnknownAI == "Unknown error occurred during AI processing"

\* an AIProcessingError whose message quotes the message of another error
AIProcessingErrorAbout(text, inner) ==
    [name |-> "AIProcessingError", message |-> [text |-> text, attempts |-> 0, inner |-> inner]]

\* what client.messages.create rejects with: an Error of the SDK carrying an
\* HTTP status, an Error without one, or a thrown value that is no Error
StatusError(status, text) ==
    [name |-> "APIError", isError |-> TRUE, hasStatus |-> TRUE, status |-> status,
     message |-> Message(text)]
PlainError(text) ==
    [name |-> "Error", isError |-> TRUE, hasStatus |-> FALSE, status |-> 0,
     message |-> Message(text)]
ThrownValue ==
    [name |-> "", isError |-> FALSE, hasStatus |-> FALSE, status |-> 0, message |-> Message("")]

\* the values a property of the parsed JSON object can have
StringValue(text) == [type |-> "string", value |-> text]
NumberValue(digits) == [type |-> "number", value |-> digits]
Missing == [type |-> "undefined", value |-> ""]

\* !value, for the values modelled
Falsy(v) ==
    \/ v.type = "undefined"
    \/ v.type = "string" /\ v.value = ""
    \/ v.type = "number" /\ v.value = "0"

\* const required = [...]
RequiredFields ==
    <<"executiveSummary", "chapterAnalysis", "keyConcepts", "detailedNotes", "actionItems",
      "feynmanExplanation">>

\* the properties of ProcessedSections
SectionFields ==
    {RequiredFields[i] : i \in 1..Len(RequiredFields)} \cup {"category", "topicsKr"}

\* the first required field that fails the check of the validation loop
\* (its index in required), or 0
FirstInvalidField(parsed) ==
    LET bad == {i \in 1..Len(RequiredFields) :
                   Falsy(parsed[RequiredFields[i]]) \/ parsed[RequiredFields[i]].type # "string"}
    IN  IF bad = {} THEN 0 ELSE MinOf(bad)

\* the JSON text of a response: text JSON.parse rejects, the text "null" (a
\* property read of the parsed value throws), or an object, given as the
\* function from property names to values
InvalidJson == [parses |-> "invalid"]
NullJson == [parses |-> "null"]
ObjectJson(object) == [parses |-> "object", object |-> object]

\* The text of a response: an opening code fence or none ("json" is ```json,
\* "plain" is ```, "upper" is ```JSON), the JSON text, a closing fence or none.
ResponseText(fence, json, closed) == [fence |-> fence, json |-> json, closed |-> closed]

\* jsonText after trim and the removal of the code fence: the JSON text when
\* the fences around it are gone, something JSON.parse rejects otherwise
\* (```JSON loses only its three backticks; a closing fence with no opening
\* one stays)
StripFence(responseText) ==
    IF responseText.fence = "upper" THEN InvalidJson
    ELSE IF responseText.fence = "none" /\ responseText.closed THEN InvalidJson
    ELSE responseText.json

\* AIProcessor.parseResponse
parseResponse(responseText) ==
    LET jsonText == StripFence(responseText)
    IN  IF jsonText.parses = "invalid"
        THEN Threw(AIProcessingErrorAbout(MsgParseFailedAI, "Unexpected token"))
        ELSE IF jsonText.parses = "null"
        THEN Threw(AIProcessingErrorAbout(MsgParseFailedAI, "Cannot read properties of null"))
        ELSE IF FirstInvalidField(jsonText.object) # 0
        THEN Threw(AIProcessingErrorAbout(MsgParseFailedAI,
                                          RequiredFields[FirstInvalidField(jsonText.object)]))
        ELSE Returned(jsonText.object)

\* mutant: every error of the service becomes an AIProcessingError, also 401
MapError_NoKeyError(error) ==
    IF error.name \in {"APIKeyMissingError", "AIProcessingError"} THEN error
    ELSE AIProcessingErrorAbout(MsgProcessingFailed, error.message.text)

\* the catch block of processAllSections: the error it throws for the error
\* it caught
MapError(error) ==
    IF error.name \in {"APIKeyMissingError", "AIProcessingError"} THEN error
    ELSE IF error.isError
    THEN IF error.hasStatus /\ error.status = 429 THEN AIProcessingError(MsgRateLimit)
         ELSE IF error.hasStatus /\ error.status = 401 THEN APIKeyMissingErrorWith(MsgInvalidKey)
         ELSE IF error.hasStatus /\ error.status = 400 THEN AIProcessingError(MsgInvalidRequest)
         ELSE AIProcessingErrorAbout(MsgProcessingFailed, error.message.text)
    ELSE AIProcessingError(MsgUnknownAI)

\* the objects a response's JSON can hold: all eight properties strings, or
\* one required property missing, empty or a number, and category and
\* topicsKr present, empty or missing
ObjectWith(category, topicsKr, k, defect) ==
    [f \in SectionFields |->
        IF f = "category" THEN category
        ELSE IF f = "topicsKr" THEN topicsKr
        ELSE IF k # 0 /\ f = RequiredFields[k] THEN defect
        ELSE StringValue("text")]

DefectValues == {Missing, StringValue(""), NumberValue("5")}

ResponseObjects ==
    { ObjectWith(c, t, k, d) :
        c \in {StringValue("tech"), StringValue(""), Missing},
        t \in {StringValue("ai"), Missing},
        k \in 0..Len(RequiredFields),
        d \in DefectValues }

\* what client.messages.create resolves with: no content block, a first block
\* that is no text block, or a text block
Responses ==
    {[content |-> "none"], [content |-> "tool_use"]}
    \cup {[content |-> "text", text |-> ResponseText(f, j, c)] :
            f \in {"none", "json", "plain", "upper"},
            j \in {InvalidJson, NullJson} \cup {ObjectJson(o) : o \in ResponseObjects},
            c \in BOOLEAN}

\* what client.messages.create rejects with
Rejections ==
    {StatusError(s, "status error") : s \in {400, 401, 429, 500}}
    \cup {PlainError("Connection error."), ThrownValue}

InitAI ==
    /\ DownloadIdle
    /\ ResolverIdle
    /\ ExtractorIdle
    /\ DecoderIdle
    /\ ParserIdle
    /\ NoteIdle
    /\ PluginIdle
    /\ CallsIdle
    /\ TabIdle
    /\ aiApiKey \in {"", "sk-ant-key"}
    /\ aiClient = Null
    /\ aiPc = "ready"
    /\ aiRequests = 0
    /\ aiReply = Null
    /\ aiOutcome = Null

\* processAllSections is called: getClient, then the request is sent
ProcessAllSections ==
    /\ aiPc \in {"ready", "settled"}
    /\ aiRequests < MaxAiCalls
    /\ IF aiClient = Null /\ aiApiKey = ""
       THEN /\ aiOutcome' = Threw(MapError(APIKeyMissingError))
            /\ aiPc' = "settled"
            /\ aiReply' = Null
            /\ UNCHANGED <<aiClient, aiRequests>>
       ELSE /\ aiClient' = [apiKey |-> aiApiKey]
            /\ aiRequests' = aiRequests + 1
            /\ aiReply' = Null
            /\ aiOutcome' = Null
            /\ aiPc' = "awaitCreate"
    /\ UNCHANGED <<aiApiKey, nonAiVars>>

\* client.messages.create rejects
CreateRejected ==
    /\ aiPc = "awaitCreate"
    /\ \E error \in Rejections :
          /\ aiReply' = Reply("create", FALSE, error)
          /\ aiOutcome' = Threw(MapError(error))
    /\ aiPc' = "settled"
    /\ UNCHANGED <<aiApiKey, aiClient, aiRequests, nonAiVars>>

\* client.messages.create resolves: the first content block is read and parsed
CreateResolved ==
    /\ aiPc = "awaitCreate"
    /\ \E response \in Responses :
          /\ aiReply' = Reply("create", TRUE, response)
          /\ aiOutcome' =
                IF response.content = "none"
                THEN Threw(MapError(PlainError("Cannot read properties of undefined")))
                ELSE IF response.content # "text"
                THEN Threw(MapError(AIProcessingError(MsgUnexpectedType)))
                ELSE IF parseResponse(response.text).kind = "throw"
                THEN Threw(MapError(parseResponse(response.text).error))
                ELSE parseResponse(response.text)
    /\ aiPc' = "settled"
    /\ UNCHANGED <<aiApiKey, aiClient, aiRequests, nonAiVars>>

NextAI ==
    \/ ProcessAllSections
    \/ CreateRejected
    \/ CreateResolved

SpecAI == InitAI /\ [][NextAI]_vars

\* ----------------------------------------------------------- the settings tab

\* the result of parseInt: an integer, or NaN
IntegerValue(v) == [nan |-> FALSE, value |-> v]
NotANumber == [nan |-> TRUE, value |-> 0]

\* parseInt(value): leading whitespace is skipped, then an optional sign and
\* the longest run of decimal digits are read, and whatever follows is
\* ignored; NaN when there is no digit. No text modelled starts with "0x".
parseInt(str) ==
    LET s == TrimLeft(str)
        signed == Len(s) > 0 /\ s[1] \in {"+", "-"}
        body == IF signed THEN Tail(s) ELSE s
        digits == SubSeq(body, 1, RunEnd(body, 1, DecDigits) - 1)
    IN  IF Len(digits) = 0 THEN NotANumber
        ELSE IF signed /\ s[1] = "-" THEN IntegerValue(0 - ParseDigits(digits, 10))
        ELSE IntegerValue(ParseDigits(digits, 10))

\* mutant: the upper limit is not checked
Accepts_NoUpperLimit(num, limit) == ~num.nan /\ num.value > 0

\* !isNaN(num) && num > 0 && num <= limit
Accepts(num, limit) == ~num.nan /\ num.value > 0 /\ num.value <= limit

\* DEFAULT_SETTINGS, the two numeric settings of it
DEFAULT_SETTINGS == [maxRetries |-> 3, timeoutSeconds |-> 120]

\* the upper limits the two text fields check against
FieldLimit(field) == IF field = "maxRetries" THEN 10 ELSE 600

\* the texts typed into the two fields
EditTexts ==
    { <<>>, <<"a", "b", "c">>, <<"0">>, <<"-", "1">>, <<"1">>, <<" ", "7">>, <<"1", "0">>,
      <<"1", "1">>, <<"5", "a", "b", "c">>, <<"1", "0", ".", "9">>, <<"0", ".", "5">>,
      <<"6", "0", "0">>, <<"6", "0", "1">>, <<"6", "0", "0", ".", "5">> }

InitTab ==
    /\ DownloadIdle
    /\ ResolverIdle
    /\ ExtractorIdle
    /\ DecoderIdle
    /\ ParserIdle
    /\ NoteIdle
    /\ PluginIdle
    /\ CallsIdle
    /\ AiIdle
    /\ tabSettings = DEFAULT_SETTINGS
    /\ tabSaved = Null
    /\ tabLast = Null

\* the onChange handler of a numeric text field runs with the text value
OnChange(field, value) ==
    LET num == parseInt(value)
        changed == [tabSettings EXCEPT ![field] = num.value]
    IN  /\ IF Accepts(num, FieldLimit(field))
           THEN /\ tabSettings' = changed
                /\ tabSaved' = changed
           ELSE UNCHANGED <<tabSettings, tabSaved>>
        /\ tabLast' = [field |-> field, value |-> value, before |-> tabSettings,
                       saved |-> Accepts(num, FieldLimit(field))]
        /\ UNCHANGED nonTabVars

\* the "Max Retries" field is edited
EditMaxRetries == \E value \in EditTexts : OnChange("maxRetries", value)

\* the "Timeout (seconds)" field is edited
EditTimeout == \E value \in EditTexts : OnChange("timeoutSeconds", value)

NextTab ==
    \/ EditMaxRetries
    \/ EditTimeout

SpecTab == InitTab /\ [][NextTab]_vars

\* ------------------------------------------------------------------ claims

\* the caught errors so far are all retryable ones (not TranscriptNotFoundError)
OnlyRetryableCaught == \A i \in 1..Len(caught) : ~IsTranscriptNotFound(caught[i])

\* the current attempt made the page request and nothing else
OnlyPageFetchInAttempt == EventsIn(attempt) = <<Event("page", attempt, 0)>>

RECURSIVE SumSeq(_)
SumSeq(q) == IF Len(q) = 0 THEN 0 ELSE q[1] + SumSeq(Tail(q))

\* the page lacks the '"captions":' marker, or the JSON behind it has no track
LacksCaptionTracks(body) ==
    ~body.captions \/ body.captionsJson \in {"noRenderer", "noTracks"}

C2_RateLimitedRetriedToBudget ==
    ( /\ pc = "failed"
      /\ maxRetries >= 1
      /\ caught # <<>>
      /\ \A i \in 1..Len(caught) : caught[i] = TranscriptNotFoundError(MsgRateLimited) )
    =>
        /\ PageFetches = maxRetries
        /\ Sleeps = [k \in 1..(maxRetries - 1) |-> 1000 * Pow2(k - 1)]
        /\ thrown.message.text = MsgRateLimited

\* C3: when the caption payload of an attempt that has attempts left is empty,
\* whitespace-only or parses to zero segments, download sleeps the backoff
\* delay (and then starts a new attempt) instead of failing.
C3_EmptyPayloadRetried ==
    ( /\ transcriptResponse # Null
      /\ transcriptResponse.status = 200
      /\ Len(parseTranscriptXML(transcriptResponse.text)) = 0
      /\ attempt < maxRetries - 1 )
    =>
        /\ pc = "sleeping"
        /\ log[Len(log)] = Event("sleep", attempt, 1000 * Pow2(attempt))

\* C4: for maxRetries = N >= 1 the attempts started (attempt is 0-based) and
\* the page requests made never exceed N, and each attempt makes one page request.
C4_AtMostMaxRetriesAttempts ==
    (maxRetries >= 1) =>
        /\ attempt + 1 <= maxRetries
        /\ PageFetches <= maxRetries
        /\ (pc # "idle" => PageFetches = attempt + 1)

C4_Witness ==
    /\ pc = "failed"
    /\ maxRetries = 3
    /\ PageFetches = 3
    /\ OnlyRetryableCaught

\* C5: every sleep follows a failed attempt k (1-based) that is not the last and
\* lasts 1000 * 2^(k-1) ms; a retryable failure of an attempt that is not the
\* last is followed by that sleep; when all attempts failed with retryable
\* failures the sleeps are exactly 1s, 2s, 4s, ... (N-1 of them), 3s in total
\* for maxRetries = 3.
C5_ExponentialBackoff ==
    /\ \A i \in 1..Len(log) :
          log[i].op = "sleep" =>
              /\ log[i].attempt + 1 < maxRetries
              /\ log[i].ms = 1000 * Pow2(log[i].attempt)
    /\ \A k \in 1..Len(caught) :
          (~IsTranscriptNotFound(caught[k]) /\ k < maxRetries) =>
              Len(Sleeps) >= k /\ Sleeps[k] = 1000 * Pow2(k - 1)
    /\ (pc = "failed" /\ maxRetries >= 1 /\ OnlyRetryableCaught) =>
          /\ Sleeps = [k \in 1..(maxRetries - 1) |-> 1000 * Pow2(k - 1)]
          /\ log[Len(log)].op # "sleep"
          /\ (maxRetries = 3 => Sleeps = <<1000, 2000>> /\ SumSeq(Sleeps) = 3000)

C5_Witness ==
    /\ pc = "failed"
    /\ maxRetries = 3
    /\ OnlyRetryableCaught
    /\ Sleeps = <<1000, 2000>>

\* C6: when all maxRetries attempts failed with retryable failures, download
\* throws the exhaustion error, whose message carries maxRetries and the
\* message of the last attempt's error.
C6_ExhaustionCarriesLastError ==
    (pc = "failed" /\ maxRetries >= 1 /\ OnlyRetryableCaught) =>
        /\ Len(caught) = maxRetries
        /\ lastError = caught[maxRetries]
        /\ thrown.message.text = MsgExhausted
        /\ thrown.message.attempts = maxRetries
        /\ thrown.message.inner = caught[maxRetries].message.text

C6_Witness ==
    /\ pc = "failed"
    /\ maxRetries = 3
    /\ OnlyRetryableCaught
    /\ caught[1] # caught[3]
    /\ thrown.message.inner = caught[3].message.text

\* C7: download fails as "video unavailable" exactly when the playability
\* check is the one that fails (a page that is no bot-challenge page and lacks
\* the playabilityStatus marker), and then in that very attempt: no retry, no
\* sleep and no caption request follow the page request. Any page lacking the
\* marker ends the call in that attempt in the same way.
C7_UnavailableFailsAtOnce ==
    /\ (videoPageBody # Null /\ ~videoPageBody.playabilityStatus) =>
          /\ pc = "failed"
          /\ thrown = caught[Len(caught)]
          /\ IsTranscriptNotFound(thrown)
          /\ OnlyPageFetchInAttempt
          /\ log[Len(log)] = Event("page", attempt, 0)
          /\ (~videoPageBody.recaptcha => thrown.message.text = MsgUnavailable)
    /\ (thrown # Null /\ thrown.message.text = MsgUnavailable) =>
          /\ videoPageBody # Null
          /\ ~videoPageBody.playabilityStatus
          /\ ~videoPageBody.recaptcha

C7_Witness ==
    /\ pc = "failed"
    /\ maxRetries = 3
    /\ attempt = 1
    /\ videoPageBody # Null
    /\ ~videoPageBody.playabilityStatus
    /\ thrown.message.text = MsgUnavailable

\* the segments of the payload download parsed
ParsedSegments == parseTranscriptXML(transcriptResponse.text)

\* C8: on success the result's text is the decoded segment texts joined by
\* single spaces in source order, and its segments field holds the n segments.
C8_ResultHasTextAndSegments ==
    (pc = "done") =>
        /\ returned.text =
              JoinWith([i \in 1..Len(ParsedSegments) |->
                           decodeHTMLEntities(ParsedSegments[i].text)], <<" ">>)
        /\ "segments" \in DOMAIN returned
        /\ "metadata" \in DOMAIN returned
        /\ IF "segments" \in DOMAIN returned
           THEN returned.segments = ParsedSegments
           ELSE FALSE

\* the elements of a sequence
Range(q) == {q[i] : i \in 1..Len(q)}

\* C9: the resolver returns null exactly when the track list is empty, and
\* otherwise an element of the list, whatever the preference list.
C9_NullIffNoTracks ==
    (selPc = "returned") =>
        /\ (selected = Null) <=> (Len(selTracks) = 0)
        /\ (Len(selTracks) > 0) => selected \in Range(selTracks)

C9_Witness ==
    /\ selPc = "returned"
    /\ Len(selTracks) = 2
    /\ selPrefs = <<>>
    /\ \A i \in 1..2 : selTracks[i].kind = "asr"
    /\ selected = selTracks[1]

\* the preferences, by position, that some track equals exactly
ExactPrefs == {i \in 1..Len(selPrefs) : \E j \in 1..Len(selTracks) :
                  selTracks[j].languageCode = selPrefs[i]}

\* C10: when some track's language code equals some preference, the resolver
\* returns the first track whose code equals the earliest such preference,
\* never one that matches by prefix or fallback only.
C10_ExactMatchWins ==
    (selPc = "returned" /\ ExactPrefs # {}) =>
        LET best == CHOOSE i \in ExactPrefs : \A k \in ExactPrefs : i <= k
            first == CHOOSE j \in 1..Len(selTracks) :
                        /\ selTracks[j].languageCode = selPrefs[best]
                        /\ \A k \in 1..(j - 1) : selTracks[k].languageCode # selPrefs[best]
        IN  /\ selected # Null
            /\ selected.languageCode = selPrefs[best]
            /\ selected = selTracks[first]

\* the example of the claim: [{en-US, asr}, {ko, manual}] with [ko, en]
C10_Witness ==
    /\ selPc = "returned"
    /\ selTracks = << CaptionTrack("u1", EN_US, "asr"), CaptionTrack("u2", KO, Undefined) >>
    /\ selPrefs = <<KO, EN>>
    /\ selected = CaptionTrack("u2", KO, Undefined)

\* the preferences, by position, that are a prefix of some track's code
PrefixPrefs == {i \in 1..Len(selPrefs) : \E j \in 1..Len(selTracks) :
                   StartsWith(selTracks[j].languageCode, selPrefs[i])}

\* every reordering of a list
Reorderings(q) ==
    LET n == Len(q)
    IN  {[i \in 1..n |-> q[f[i]]] : f \in {g \in [1..n -> 1..n] : \A a, b \in 1..n : g[a] = g[b] => a = b}}

\* C11 as stated: when some track matches a preference exactly or by prefix,
\* the returned track matches the earliest preference that any track matches
\* (exactly or by prefix), and the returned language code is the same for
\* every permutation of the track list.
C11_EarliestMatchedPreference ==
    (selPc = "returned" /\ PrefixPrefs # {}) =>
        /\ selected # Null
        /\ StartsWith(selected.languageCode, selPrefs[MinOf(PrefixPrefs)])
        /\ \A perm \in Reorderings(selTracks) :
              findBestCaptionTrack(perm, selPrefs).languageCode = selected.languageCode

\* C11, amended: exact equality is searched over the whole preference list
\* before any prefix is tried. When some track equals a preference the
\* returned track has the code of the earliest such preference, and that code
\* is the same for every permutation of the tracks; otherwise, when some
\* track's code starts with a preference, the returned track is the first
\* track in list order whose code starts with the earliest such preference,
\* and every permutation of the tracks returns a track whose code starts with
\* that same preference.
C11_ExactThenPrefixByPreference ==
    (selPc = "returned" /\ PrefixPrefs # {}) =>
        /\ selected # Null
        /\ IF ExactPrefs # {}
           THEN /\ selected.languageCode = selPrefs[MinOf(ExactPrefs)]
                /\ \A perm \in Reorderings(selTracks) :
                      findBestCaptionTrack(perm, selPrefs).languageCode = selected.languageCode
           ELSE LET lang == selPrefs[MinOf(PrefixPrefs)]
                    hits == {j \in 1..Len(selTracks) : StartsWith(selTracks[j].languageCode, lang)}
                IN  /\ selected = selTracks[MinOf(hits)]
                    /\ \A perm \in Reorderings(selTracks) :
                          StartsWith(findBestCaptionTrack(perm, selPrefs).languageCode, lang)

\* a prefix-only hit for the second preference, behind an authored track
C11_Witness ==
    /\ selPc = "returned"
    /\ selPrefs = <<KO, EN>>
    /\ selTracks = << CaptionTrack("u1", JA, Undefined), CaptionTrack("u2", EN_GB, "asr") >>
    /\ selected = CaptionTrack("u2", EN_GB, "asr")

\* C12: when no track matches any preference exactly or by prefix (an empty
\* preference list included) and there are tracks, the resolver returns the
\* first track in list order whose kind is not machine-generated if there is
\* one, and the first track of the list otherwise.
C12_AuthoredThenFirst ==
    (selPc = "returned" /\ PrefixPrefs = {} /\ Len(selTracks) > 0) =>
        LET authored == {j \in 1..Len(selTracks) : selTracks[j].kind # "asr"}
        IN  IF authored # {}
            THEN selected = selTracks[MinOf(authored)]
            ELSE selected = selTracks[1]

\* the example of the claim: no preference, [{ja, asr}, {ja, manual}]
C12_Witness ==
    /\ selPc = "returned"
    /\ selPrefs = <<>>
    /\ selTracks = << CaptionTrack("u1", JA, "asr"), CaptionTrack("u2", JA, Undefined) >>
    /\ selected = CaptionTrack("u2", JA, Undefined)

\* does the literal lit occur somewhere in s
Contains(s, lit) == \E i \in 1..Len(s) : MatchesAt(s, lit, i)

\* an identifier: exactly 11 characters of the alphabet
IsIdentifier(s) == Len(s) = IdLength /\ \A i \in 1..Len(s) : s[i] \in IdAlphabet

\* what may follow an identifier in a URL: nothing, or text led by a character
\* outside the alphabet
Delimited(suf) == Len(suf) = 0 \/ suf[1] \notin IdAlphabet

C14_BareIdentifierAccepted ==
    (exPc = "extract" /\ IsIdentifier(Trim(exUrl))) =>
        exOutcome = Returned(Trim(exUrl))

\* the occurrences of id in s that are whole tokens: no alphabet character
\* right before or right after
WholeTokenAt(s, id) ==
    {i \in 1..Len(s) :
        /\ MatchesAt(s, id, i)
        /\ (i = 1 \/ s[i - 1] \notin IdAlphabet)
        /\ (i + Len(id) > Len(s) \/ s[i + Len(id)] \notin IdAlphabet)}

\* C15: every identifier that extract or TranscriptDownloader.extractVideoId
\* returns is exactly 11 characters of [A-Za-z0-9_-] and is a whole token of
\* the input, never the first 11 characters of a longer one.
C15_IdentifierNeverTruncated ==
    (exPc \in {"extract", "extractVideoId"} /\ exOutcome.kind = "return") =>
        /\ IsIdentifier(exOutcome.value)
        /\ WholeTokenAt(exUrl, exOutcome.value) # {}

\* C16: for every string s, encoding s with the entities table and decoding
\* the result with decodeHTMLEntities gives back s exactly, also when s itself
\* holds text that looks like an entity, such as "&lt;".
C16_DecodeRoundTrips ==
    (decPc = "decoded" /\ decText = Encode(decPlain)) => decResult = decPlain

\* an element the pattern recognises is well-formed when start and dur are numbers
WellFormed(item) ==
    /\ item.tag = "text"
    /\ ~parseFloat(item.start).nan
    /\ ~parseFloat(item.dur).nan

\* C17: of a payload with K well-formed and M malformed elements (start or
\* dur not a number), parseTranscriptXML returns exactly the K well-formed
\* ones, in source order, none with a NaN offset or duration; with no
\* well-formed element it returns the empty sequence.
C17_MalformedElementsSkipped ==
    (parsePc = "parsed") =>
        LET good == SelectSeq(parseXml, WellFormed)
        IN  /\ Len(parseResult) = Len(good)
            /\ \A i \in 1..Len(parseResult) :
                  /\ ~parseResult[i].offset.nan
                  /\ ~parseResult[i].duration.nan
                  /\ i <= Len(good) => parseResult[i].text = good[i].text

\* what the user wrote into the note, and the frontmatter fields the updater
\* does not fill
UnrelatedTexts == {TXT_TITLE, TXT_AFTER, TXT_KEPT, TXT_OWN, FIELD_AUTHOR, FIELD_SOURCE}

\* C18: a processed note still holds all unrelated content: the frontmatter
\* fields other than category and topics_kr, the text the user wrote (after
\* the insertion anchor too) and what the user wrote under "My Notes", after
\* the first processing and after every later one.
C18_UnrelatedContentPreserved ==
    (noteRuns >= 1) =>
        /\ \A t \in UnrelatedTexts : Contains(noteOriginal, t) => Contains(noteContent, t)
        /\ Len(noteMemo) > 0 => Contains(noteContent, noteMemo)

\* the invocations of processCurrentNote that have started and not ended
InFlight == {r \in Invocations : invocations[r].pc \notin {"idle", "done"}}

\* C19: at any time at most one processCurrentNote run is in flight for the
\* note: a second ribbon click or command during a run starts no second run
\* (no second download, no second write).
C19_AtMostOneInFlight == Cardinality(InFlight) <= 1

\* the contents the note has had so far
ContentsSoFar ==
    {PLUGIN_NOTE} \cup {invocations[q].updatedContent :
                          q \in {p \in Invocations : invocations[p].replaced # <<>>}}

OpsIn(att) == [i \in 1..Len(EventsIn(att)) |-> EventsIn(att)[i].op]

\* what one attempt may do: the page request, then at most one caption
\* request, then at most one sleep
AttemptShapes ==
    {<<"page">>, <<"page", "caption">>, <<"page", "sleep">>, <<"page", "caption", "sleep">>}

\* C21: every attempt runs the chain from the start. The log holds the
\* attempts one after the other; each attempt started made exactly one page
\* request first and at most one caption request after it; an attempt that
\* waits for its page holds no page body, track or response of an earlier
\* attempt; the caption request of the current attempt was made for the track
\* selected from the page body this attempt received, which passed every
\* check; and the result is built from this attempt's page and payload.
C21_EachAttemptRunsTheChain ==
    /\ \A i \in 1..(Len(log) - 1) : log[i].attempt <= log[i + 1].attempt
    /\ \A att \in 0..(attempt + 1) :
          IF pc # "idle" /\ att <= attempt /\ att < maxRetries
          THEN OpsIn(att) \in AttemptShapes
          ELSE EventsIn(att) = <<>>
    /\ (pc = "awaitPage") =>
          /\ videoPageBody = Null
          /\ captionTrack = Null
          /\ transcriptResponse = Null
          /\ log[Len(log)] = Event("page", attempt, 0)
    /\ (\E i \in 1..Len(log) : log[i] = Event("caption", attempt, 0)) =>
          /\ videoPageBody # Null
          /\ PageError(videoPageBody) = Null
          /\ captionTrack # Null
          /\ captionTrack = findBestCaptionTrack(videoPageBody.captionTracks, languages)
    /\ (pc = "awaitCaption") => transcriptResponse = Null
    /\ (pc = "done") =>
          /\ log[Len(log)] = Event("caption", attempt, 0)
          /\ returned = TranscriptResult(transcriptResponse, videoPageBody)

\* the second attempt, begun after the first one's caption request was
\* rejected, has fetched the page again and waits for its own caption request
C21_Witness ==
    /\ attempt = 1
    /\ pc = "awaitCaption"
    /\ OpsIn(0) = <<"page", "caption", "sleep">>
    /\ OpsIn(1) = <<"page", "caption">>

\* download has settled
Settled == pc \in {"done", "failed"}

\* the outcome so far: nothing while the call runs, then either a result or
\* one TranscriptNotFoundError
OneOutcome ==
    /\ (pc = "done") => (returned # Null /\ thrown = Null)
    /\ (pc = "failed") => (returned = Null /\ thrown # Null /\ IsTranscriptNotFound(thrown))
    /\ (~Settled) => (returned = Null /\ thrown = Null)

\* the error the catch block received last is being retried (the backoff
\* sleep or the next attempt is under way), or it is the error thrown, or the
\* exhaustion error thrown carries it
LastCaughtAccountedFor ==
    (caught # <<>>) =>
        LET k == Len(caught)
        IN  /\ k <= attempt + 1
            /\ \/ pc = "sleeping" /\ k = attempt + 1
               \/ pc \in {"awaitPage", "awaitCaption", "done"} /\ k <= attempt
               \/ pc = "failed" /\ thrown \in {caught[k], ExhaustedError(maxRetries, caught[k])}

\* C22: when every request and every sleep completes, a call of download
\* settles for every maxRetries, and at every moment it has settled at most
\* once: with a result and no error, or with one TranscriptNotFoundError and
\* no result; once settled the outcome never changes; and every error an
\* attempt raised is retried or reaches the caller.
C22_TerminatesWithOneOutcome ==
    /\ [](OneOutcome /\ LastCaughtAccountedFor)
    /\ [][Settled => (Settled' /\ returned' = returned /\ thrown' = thrown)]_vars
    /\ (pc # "idle") ~> Settled

\* a call that was retried twice and then returned a result
C22_Witness ==
    /\ pc = "done"
    /\ attempt = 2
    /\ Len(caught) = 2
    /\ returned # Null

RECURSIVE RunAlone(_, _, _)
\* call r run with no other call: it is resumed with each reply in turn, and
\* the regex is touched by nobody else in between
RunAlone(r, replies, index) ==
    IF replies = <<>> THEN r
    ELSE LET s == Resume(r, Head(replies), index)
         IN  RunAlone(s.call, Tail(replies), s.lastIndex)

\* the locals call c would have after the replies it got, had it run alone
\* from a fresh regex
Alone(c) ==
    RunAlone(CallEnterLoop(NewCall(calls[c].maxRetries, calls[c].languages), 0),
             calls[c].replies, 0)

\* C23: two download calls interleaved at their await points do not influence
\* each other. Whatever the other call did in between, each call stands where
\* it would stand had it run alone on the same replies, so it returns the same
\* result or throws the same error; and between any two steps, when no call
\* is inside parseTranscriptXML, RE_XML_TRANSCRIPT.lastIndex is 0.
C23_InterleavedCallsIndependent ==
    /\ lastIndex = 0
    /\ \A c \in Callers : (calls[c].pc # "idle") => calls[c] = Alone(c)

\* call 2 parsed a payload and returned while call 1, in its second attempt,
\* waited for its caption request; call 1 also got a payload parsed before
C23_Witness ==
    /\ calls[1].pc = "awaitCaption"
    /\ calls[1].attempt = 1
    /\ calls[2].pc = "done"
    /\ Len(calls[2].replies) = 2

RECURSIVE DecodeOneLevel(_, _)
\* one level of decoding, from position i on: the text is read once from left
\* to right, every reference found in it (named first, then decimal, then
\* hexadecimal) gives its character, and what a reference gave is not read again
DecodeOneLevel(s, i) ==
    IF i > Len(s) THEN <<>>
    ELSE LET named == {k \in 1..Len(Entities) : MatchesAt(s, Entities[k][1], i)}
             decEnd == RunEnd(s, i + 2, DecDigits)
             hexEnd == RunEnd(s, i + 3, HexDigits)
         IN  IF named # {}
             THEN Entities[MinOf(named)][2]
                      \o DecodeOneLevel(s, i + Len(Entities[MinOf(named)][1]))
             ELSE IF /\ MatchesAt(s, <<"&", "#">>, i)
                     /\ decEnd > i + 2 /\ decEnd <= Len(s) /\ s[decEnd] = ";"
             THEN <<FromCharCode(ParseDigits(SubSeq(s, i + 2, decEnd - 1), 10))>>
                      \o DecodeOneLevel(s, decEnd + 1)
             ELSE IF /\ MatchesAt(s, <<"&", "#", "x">>, i)
                     /\ hexEnd > i + 3 /\ hexEnd <= Len(s) /\ s[hexEnd] = ";"
             THEN <<FromCharCode(ParseDigits(SubSeq(s, i + 3, hexEnd - 1), 16))>>
                      \o DecodeOneLevel(s, hexEnd + 1)
             ELSE <<s[i]>> \o DecodeOneLevel(s, i + 1)

\* C24: decodeHTMLEntities decodes by one level only: its result is the text
\* with every reference replaced once, so a double-encoded reference such as
\* "&amp;lt;" comes out as "&lt;" and not as "<".
C24_DecodesOneLevelOnly ==
    (decPc = "decoded") => decResult = DecodeOneLevel(decText, 1)

\* how often step x was taken in the steps st
RECURSIVE CountOf(_, _)
CountOf(st, x) ==
    IF Len(st) = 0 THEN 0 ELSE (IF st[1] = x THEN 1 ELSE 0) + CountOf(Tail(st), x)

\* the failures of the steps before the note is read: no frontmatter, no
\* source_url, no identifier in the URL, the download, the API key, the AI call
FailedBeforeUpdate(error) ==
    \/ error \in {GenericError(MsgNoFrontmatter), GenericError(MsgNoSourceUrl), APIKeyMissingError}
    \/ error # Null /\ error.name \in {"VideoIdNotFoundError", "TranscriptNotFoundError",
                                        "AIProcessingError"}

\* C25: an invocation of processCurrentNote that failed at one of the steps
\* before the update has ended, never called vault.read, createBackup or
\* vault.modify, showed exactly one error notice, as its last step, and ran
\* the download and the AI call at most once each; when no invocation wrote
\* the note, the note is as it was.
C25_FailureLeavesNoteUnmodified ==
    /\ \A r \in Invocations :
          LET run == invocations[r]
          IN  FailedBeforeUpdate(run.error) =>
                  /\ run.pc = "done"
                  /\ CountOf(run.steps, "errorNotice") = 1
                  /\ run.steps[Len(run.steps)] = "errorNotice"
                  /\ \A i \in 1..Len(run.steps) :
                        run.steps[i] \in {"download", "ai", "errorNotice"}
                  /\ CountOf(run.steps, "download") <= 1
                  /\ CountOf(run.steps, "ai") <= 1
                  /\ run.replaced = <<>>
                  /\ run.updatedContent = <<>>
                  /\ run.backup = <<>>
    /\ (\A r \in Invocations : invocations[r].replaced = <<>>) => vaultContent = PLUGIN_NOTE

\* one invocation failed at the download and another at the AI call, each
\* with its one notice, and the note is as it was
C25_Witness ==
    /\ invocations[1].steps = <<"download", "errorNotice">>
    /\ invocations[1].error.name = "TranscriptNotFoundError"
    /\ invocations[2].steps = <<"download", "ai", "errorNotice">>
    /\ invocations[2].error.name = "AIProcessingError"
    /\ vaultContent = PLUGIN_NOTE

\* the note after it was processed once, without segments or videoId
ProcessedOnce == updateFlexible(noteOriginal, noteSections, <<>>, <<>>)

\* C26: updateFlexible is idempotent for fixed sections: processing a note
\* that was processed once, with the same sections, gives the same content.
C26_UpdateFlexibleIdempotent ==
    (noteRuns = 1 /\ noteContent = ProcessedOnce) =>
        updateFlexible(noteContent, noteSections, <<>>, <<>>) = noteContent

\* the object in the text block the last request resolved with, when the
\* text holds one that parseResponse gets to see; Null otherwise
ObjectReceived ==
    IF /\ aiReply # Null
       /\ aiReply.ok
       /\ aiReply.value.content = "text"
       /\ StripFence(aiReply.value.text).parses = "object"
    THEN StripFence(aiReply.value.text).object
    ELSE Null

\* property f of the object is a non-empty string
NonEmptyString(object, f) == object[f].type = "string" /\ object[f].value # ""

\* C27: whenever processAllSections returns, every property of
\* ProcessedSections (the six sections, category and topicsKr) is a non-empty
\* string in the object returned; a response whose object lacks one of them
\* fails with an AIProcessingError.
C27_ReturnedSectionsComplete ==
    /\ (aiOutcome # Null /\ aiOutcome.kind = "return") =>
          \A f \in SectionFields : NonEmptyString(aiOutcome.value, f)
    /\ (aiPc = "settled" /\ ObjectReceived # Null
           /\ \E f \in SectionFields : ~NonEmptyString(ObjectReceived, f)) =>
          /\ aiOutcome.kind = "throw"
          /\ aiOutcome.error.name = "AIProcessingError"

\* the error the last request was rejected with, or Null
Rejection == IF aiReply # Null /\ ~aiReply.ok THEN aiReply.value ELSE Null

\* C28: every failure of processAllSections is an APIKeyMissingError or an
\* AIProcessingError. With an empty API key it fails with APIKeyMissingError
\* and no request is ever sent; a rejection with status 401 becomes
\* APIKeyMissingError, one with status 429 or 400 and every other rejection
\* an AIProcessingError; the AIProcessingError raised for a response that is
\* no text block or does not parse reaches the caller as it was raised.
C28_FailuresAreOfTwoKinds ==
    /\ (aiOutcome # Null /\ aiOutcome.kind = "throw") =>
          aiOutcome.error.name \in {"APIKeyMissingError", "AIProcessingError"}
    /\ (aiApiKey = "") =>
          /\ aiRequests = 0
          /\ aiClient = Null
          /\ (aiPc = "settled") => aiOutcome = Threw(APIKeyMissingError)
    /\ (aiPc = "settled" /\ Rejection # Null) =>
          /\ aiOutcome.kind = "throw"
          /\ IF Rejection.hasStatus /\ Rejection.status = 401
             THEN aiOutcome.error = APIKeyMissingErrorWith(MsgInvalidKey)
             ELSE aiOutcome.error.name = "AIProcessingError"
          /\ (Rejection.hasStatus /\ Rejection.status = 429) =>
                aiOutcome.error = AIProcessingError(MsgRateLimit)
          /\ (Rejection.hasStatus /\ Rejection.status = 400) =>
                aiOutcome.error = AIProcessingError(MsgInvalidRequest)
    /\ (aiPc = "settled" /\ aiReply # Null /\ aiReply.ok) =>
          /\ (aiReply.value.content = "tool_use") =>
                aiOutcome = Threw(AIProcessingError(MsgUnexpectedType))
          /\ (aiReply.value.content = "text"
                 /\ parseResponse(aiReply.value.text).kind = "throw") =>
                aiOutcome = parseResponse(aiReply.value.text)

\* the second request of a processor was rejected with status 401
C28_Witness ==
    /\ aiPc = "settled"
    /\ aiRequests = 2
    /\ Rejection # Null
    /\ Rejection.hasStatus
    /\ Rejection.status = 401
    /\ aiOutcome.error.name = "APIKeyMissingError"

\* the text is a decimal numeral: an optional sign, then digits with at most
\* one point among them
IsDecimalNumeral(t) ==
    LET body == IF Len(t) > 0 /\ t[1] \in {"+", "-"} THEN Tail(t) ELSE t
    IN  /\ \E i \in 1..Len(body) : body[i] \in DecDigits
        /\ \A i \in 1..Len(body) : body[i] \in DecDigits \cup {"."}
        /\ Cardinality({i \in 1..Len(body) : body[i] = "."}) <= 1

\* the number a text denotes, in thousandths, or NaN when it denotes none
Denoted(str) == IF IsDecimalNumeral(Trim(str)) THEN parseFloat(Trim(str)) ELSE NaN

\* both numeric settings are integers within their limits
SettingsInRange(s) ==
    /\ s.maxRetries \in 1..10
    /\ s.timeoutSeconds \in 1..600

\* C29 (as stated): starting from the defaults, maxRetries stays in 1..10 and
\* timeoutSeconds in 1..600, and an edit whose text is not a number, or is a
\* number outside the range, leaves the settings unchanged and saves nothing.
C29_InvalidEditsLeaveSettings ==
    /\ SettingsInRange(tabSettings)
    /\ (tabLast # Null) =>
          LET n == Denoted(tabLast.value)
          IN  (n.nan \/ n.milli < 1000 \/ n.milli > 1000 * FieldLimit(tabLast.field)) =>
                  /\ tabSettings = tabLast.before
                  /\ ~tabLast.saved

\* C29 (amended): starting from the defaults, maxRetries stays an integer in
\* 1..10 and timeoutSeconds one in 1..600, and so does what is saved. An edit
\* is judged by the integer parseInt reads at the start of its text, whatever
\* follows: when there is none, or it lies outside the range, the settings
\* stay as they were and nothing is saved; otherwise the field becomes that
\* integer and the settings are saved.
C29_LeadingIntegerDecides ==
    /\ SettingsInRange(tabSettings)
    /\ (tabSaved # Null) => SettingsInRange(tabSaved)
    /\ (tabLast # Null) =>
          LET num == parseInt(tabLast.value)
              ok == ~num.nan /\ num.value \in 1..FieldLimit(tabLast.field)
          IN  /\ tabLast.saved = ok
              /\ ok => /\ tabSettings = [tabLast.before EXCEPT ![tabLast.field] = num.value]
                       /\ tabSaved = tabSettings
              /\ ~ok => tabSettings = tabLast.before

\* the text "5abc" typed into the Max Retries field set maxRetries to 5
C29_Witness ==
    /\ tabLast # Null
    /\ tabLast.field = "maxRetries"
    /\ tabLast.value = <<"5", "a", "b", "c">>
    /\ tabLast.before.maxRetries = 3
    /\ tabSettings.maxRetries = 5
    /\ tabLast.saved

\* C30: a downloader constructed with maxRetries <= 0 (stored settings are
\* merged over the defaults unvalidated) makes no request and sleeps never:
\* download fails at once with the exhaustion error that carries that count
\* and the message "Unknown error", and it returns no result.
C30_NoAttemptWithoutRetries ==
    (maxRetries <= 0 /\ pc # "idle") =>
        /\ pc = "failed"
        /\ log = <<>>
        /\ caught = <<>>
        /\ returned = Null
        /\ thrown = [name |-> "TranscriptNotFoundError",
                     message |-> [text |-> MsgExhausted, attempts |-> maxRetries,
                                  inner |-> "Unknown error"]]

\* download was called on a downloader with no attempt to make, and threw
C30_Witness ==
    /\ maxRetries <= 0
    /\ pc = "failed"
    /\ thrown # Null
    /\ thrown.message.attempts = maxRetries

====
